---- MODULE Spec2Model ----
\* A model of vibelinter's fix engine (sources/vibelinter/fixer.py), of its
\* lint engine (sources/vibelinter/engine.py), of the suppression filter, of
\* the multi-file fix run (sources/vibelinter/cli.py) and of the rule VBL101
\* (sources/vibelinter/rules/implementations/vbl101.py).
EXTENDS Integers, Sequences, FiniteSets, TLC

\* ------------------------------------------------------------------ bounds
\* Longest fix sequence handed to apply_fixes.
MaxFixes == 2
\* Number of lines of the file, and nodes per line of the untouched file.
MaxLine == 2
MaxColumn == 2

Lines == 1..MaxLine
Columns == 1..MaxColumn
Positions == Lines \X Columns

\* ---------------------------------------------------------- source and tree
\* Source text is a sequence of lines, a line a sequence of tokens: "x" is the
\* start of a syntax node, " " a space after it.  A tree is a sequence of
\* lines, a line the sequence of its nodes; a node has the (line, column) at
\* which it stood when the text was parsed, which names it from then on, and
\* the flag "a space follows".

\* The file as it is before any fix: MaxColumn unspaced nodes on each line.
PristineSource == [l \in Lines |-> [c \in Columns |-> "x"]]

\* A file that is not Python: "?" stands for text no grammar rule accepts.
BrokenSource == [l \in Lines |-> <<"x", "?">>]

\* libcst.parse_module raises ParserSyntaxError on the text.
ParseFails(text) == \E l \in DOMAIN text : \E i \in DOMAIN text[l] : text[l][i] = "?"

RECURSIVE ParseLine(_, _, _)
ParseLine(line, l, i) ==
    IF i > Len(line) THEN <<>>
    ELSE IF line[i] = "x"
         THEN <<[id |-> <<l, i>>,
                 spaced |-> (i < Len(line) /\ line[i + 1] = " ")]>>
              \o ParseLine(line, l, i + 1)
         ELSE ParseLine(line, l, i + 1)

\* libcst.parse_module: text to tree.
parse_module(text) == [l \in DOMAIN text |-> ParseLine(text[l], l, 1)]

RECURSIVE RenderLine(_)
RenderLine(nodes) ==
    IF nodes = <<>> THEN <<>>
    ELSE (IF Head(nodes).spaced THEN <<"x", " ">> ELSE <<"x">>)
         \o RenderLine(Tail(nodes))

\* Module.code: tree to text.
Code(tree) == [l \in DOMAIN tree |-> RenderLine(tree[l])]

\* PositionProvider metadata: the 1-based column at which node k of a line
\* starts in the tree as it is now.
ColumnOf(nodes, k) == k + Cardinality({j \in 1..(k - 1) : nodes[j].spaced})

\* A node starts at (tl, tc) in the tree as it is now.
NodeStartsAt(tree, tl, tc) ==
    /\ tl \in DOMAIN tree
    /\ \E k \in DOMAIN tree[tl] : ColumnOf(tree[tl], k) = tc

\* _BracketSpacingTransformer( tl, tc ): the node that starts at (tl, tc) in the
\* current tree gets a space after its opening bracket; every other node, and
\* the whole tree when no node starts there, is returned as it is.
BracketSpacingTransformer(tl, tc, tree) ==
    [l \in DOMAIN tree |->
        [k \in DOMAIN tree[l] |->
            IF l = tl /\ ColumnOf(tree[l], k) = tc
            THEN [tree[l][k] EXCEPT !.spaced = TRUE]
            ELSE tree[l][k]]]

\* _SingleLineBodyTransformer( tl, tc ): the compound statement that starts at
\* (tl, tc) in the current tree gets its body, the line below it, on its own
\* line; the tree is returned as it is when no node starts there or there is
\* no line below.
SingleLineBodyTransformer(tl, tc, tree) ==
    IF NodeStartsAt(tree, tl, tc) /\ tl < Len(tree)
    THEN [l \in 1..(Len(tree) - 1) |->
              IF l < tl THEN tree[l]
              ELSE IF l = tl THEN tree[tl] \o tree[tl + 1]
              ELSE tree[l + 1]]
    ELSE tree

\* ------------------------------------------------------------------- fixes
\* FixSafety (rules/fixable.py) by its values.
FixSafety == {"safe", "dangerous"}

\* What a fix's transformer_factory does when it is called: add bracket
\* spacing at its target, pull the body onto the line of its target, or raise.
Transformers == {"space", "join", "raise"}

\* A Fix; line and column are those of its violation, id is the place of the
\* object in the sequence the caller passes (two fixes may agree in all else).
FixAttributes == [line : Lines, column : Columns,
                  safety : FixSafety, transformer_factory : Transformers]

\* A sequence of Fix objects with the attributes a[1], a[2], ...
MakeFixes(a) ==
    [i \in DOMAIN a |-> [id |-> i, line |-> a[i].line, column |-> a[i].column,
                         safety |-> a[i].safety,
                         transformer_factory |-> a[i].transformer_factory]]

\* position = ( fix.violation.line, fix.violation.column )
PositionOfFix(fix) == <<fix.line, fix.column>>

\* Python's tuple comparison of two (line, column) keys.
KeyLess(p, q) == p[1] < q[1] \/ (p[1] = q[1] /\ p[2] < q[2])

\* fix.transformer_factory( module ) when it returns.
Transformed(fix, tree) ==
    IF fix.transformer_factory = "space"
    THEN BracketSpacingTransformer(fix.line, fix.column, tree)
    ELSE SingleLineBodyTransformer(fix.line, fix.column, tree)

\* fix.transformer_factory( module ) raises.
Raises(fix) == fix.transformer_factory = "raise"

\* ------------------------------------------------------------- FixEngine
VARIABLES
    disk,               \* content of the file at file_path
    writes,             \* write_text calls made by the current call
    apply_dangerous,    \* FixEngine.apply_dangerous
    pc,                 \* "idle", "loop", "returned" (apply_fixes returned),
                        \* "done", "raised" (the call ended in an exception)
    fixes,              \* argument of the call
    simulate,           \* argument of the call, as the call has read it
    source_code,        \* what read_text returned
    skipped_fixes,      \* apply_fixes locals
    sorted_fixes,
    idx,                \* place of the for loop in sorted_fixes
    module,
    applied,
    conflicts,
    applied_positions,
    invoked,            \* the fixes whose transformer_factory has been called
    result              \* <<FixApplicationResult>> once apply_fixes has returned

fixvars == <<disk, writes, apply_dangerous, pc, fixes, simulate, source_code,
             skipped_fixes, sorted_fixes, idx, module, applied, conflicts,
             applied_positions, invoked, result>>

\* ---------------------------------------------------------------- Engine
VARIABLES
    enabled_rules,      \* EngineConfiguration.enabled_rules
    include_context,    \* EngineConfiguration.include_context
    context_size,       \* EngineConfiguration.context_size
    lpc,                \* "idle", "instantiate", "visit", "done", "raised"
    filename,           \* argument of lint_source
    source_lines,       \* lint_source locals
    rule_order,         \* the order in which enabled_rules is iterated
    rules,              \* the rules instantiated so far
    visited,            \* how many of them wrapper.visit has run
    found,              \* found[i]: the violations of rules[i]
    traversals,         \* one entry for every wrapper.visit call made
    report,             \* <<Report>> once lint_source has returned
    error               \* <<exception>> once lint_source has raised

lintvars == <<enabled_rules, include_context, context_size, lpc, filename,
              source_lines, rule_order, rules, visited, found, traversals,
              report, error>>

\* ------------------------------------------------------ Engine.lint_files
VARIABLES
    bpc,                \* "idle", "loop", "file" (lint_file under way), "done"
    file_paths,         \* argument of lint_files: what is at each path
    fi,                 \* place of the for loop in file_paths
    reports,            \* the list reports
    returned            \* <<the tuple returned>> once lint_files has returned

batchvars == <<bpc, file_paths, fi, reports, returned>>

\* ------------------------------------------------------ suppression filter
VARIABLES
    flt_pc,             \* "idle", "extracted", "filtered"
    flt_lines,          \* source lines given to the suppression extraction
    flt_suppressions,   \* the suppression map
    flt_violations,     \* violations given to the filter
    flt_filename,       \* filename given to the filter
    per_file_ignores,   \* EngineConfiguration.per_file_ignores
    flt_result          \* <<what the filter returned>>

filtervars == <<flt_pc, flt_lines, flt_suppressions, flt_violations,
                flt_filename, per_file_ignores, flt_result>>

\* ------------------------------------------- cli._collect_and_apply_fixes
VARIABLES
    rpc,                \* "idle", "loop", "file" (apply_fixes_to_file under
                        \* way), "done"
    fix_paths,          \* argument file_paths: what is at each path
    run_simulate,       \* argument simulate
    ri,                 \* place of the for loop in file_paths
    file_results,       \* the list file_results
    run_returned        \* <<the tuple returned>> once the run has returned

runvars == <<rpc, fix_paths, run_simulate, ri, file_results, run_returned>>

\* ------------------------------------------------------------- VBL101
VARIABLES
    vpc,                    \* "idle", "visit", "analyze", "done"
    v_source_lines,         \* VBL101.source_lines
    max_consecutive_blanks, \* VBL101.max_consecutive_blanks
    function_ranges,        \* VBL101._function_ranges
    range_idx,              \* place of the outer loop of _analyze_collections
    line_num,               \* its locals
    consecutive_blanks,
    blank_start_line,
    v_violations            \* VBL101._violations

vblvars == <<vpc, v_source_lines, max_consecutive_blanks, function_ranges,
             range_idx, line_num, consecutive_blanks, blank_start_line,
             v_violations>>

\* What the fix engine and lint_source leave alone.
auxvars == <<batchvars, filtervars, runvars, vblvars>>

vars == <<fixvars, lintvars, batchvars, filtervars, runvars, vblvars>>

\* "Fix is {safety}; use --apply-dangerous to enable.", in its parts.
SkipReason(fix) ==
    <<"Fix is ", fix.safety, "; use ", "--apply-dangerous", " to enable.">>

\* The safety filter without its test.
EveryFixEligible(fix, dangerous) == TRUE

IsEligible(fix, dangerous) == fix.safety = "safe" \/ dangerous

\* A filter that reports the rejected fixes and lets them through all the same.
FilterKeepsRejected(fs, dangerous) ==
    <<fs,
      LET rejected == SelectSeq(fs, LAMBDA f : ~(f.safety = "safe" \/ dangerous))
      IN  [i \in DOMAIN rejected |->
              [fix |-> rejected[i], reason |-> SkipReason(rejected[i])]]>>

\* FixEngine._filter_by_safety: <<eligible, skipped>>.
filter_by_safety(fs, dangerous) ==
    <<SelectSeq(fs, LAMBDA f : IsEligible(f, dangerous)),
      LET rejected == SelectSeq(fs, LAMBDA f : ~IsEligible(f, dangerous))
      IN  [i \in DOMAIN rejected |->
              [fix |-> rejected[i], reason |-> SkipReason(rejected[i])]]>>

\* An unstable descending insertion: before the elements with the same key.
InsertBeforeEqualPositions(sorted, fix) ==
    LET n == Cardinality({i \in DOMAIN sorted :
                 KeyLess(PositionOfFix(fix), PositionOfFix(sorted[i]))})
    IN  SubSeq(sorted, 1, n) \o <<fix>> \o SubSeq(sorted, n + 1, Len(sorted))

\* sorted( ... ) without reverse = True: behind every element whose key is not
\* larger.
InsertForgettingReverse(sorted, fix) ==
    LET n == Cardinality({i \in DOMAIN sorted :
                 ~KeyLess(PositionOfFix(fix), PositionOfFix(sorted[i]))})
    IN  SubSeq(sorted, 1, n) \o <<fix>> \o SubSeq(sorted, n + 1, Len(sorted))

\* Where sorted( ..., reverse = True ) puts one more element: behind every
\* element whose key is not smaller (the sort is stable).
InsertDescending(sorted, fix) ==
    LET n == Cardinality({i \in DOMAIN sorted :
                 ~KeyLess(PositionOfFix(sorted[i]), PositionOfFix(fix))})
    IN  SubSeq(sorted, 1, n) \o <<fix>> \o SubSeq(sorted, n + 1, Len(sorted))

\* No sort: the eligible fixes in the order of the input.
KeepInputOrder(fs) == fs

\* FixEngine._sort_fixes_by_position.
RECURSIVE sort_fixes_by_position(_)
sort_fixes_by_position(fs) ==
    IF fs = <<>> THEN <<>>
    ELSE InsertDescending(sort_fixes_by_position(SubSeq(fs, 1, Len(fs) - 1)),
                          fs[Len(fs)])

FixApplicationResult(original, modified, app, skipped, confl) ==
    [original_source |-> original, modified_source |-> modified,
     applied_fixes |-> app, skipped_fixes |-> skipped, conflicts |-> confl]

\* FixApplicationResult.has_changes
has_changes(r) == Len(r.applied_fixes) > 0

\* An early return that gives the empty text as modified_source.
EarlyResultEmptyText(text, fs, skipped) ==
    FixApplicationResult(text, <<>>, <<>>, IF fs = <<>> THEN <<>> ELSE skipped, <<>>)

\* The result of the two early returns of apply_fixes.
EarlyResult(text, fs, skipped) ==
    FixApplicationResult(text, text, <<>>, IF fs = <<>> THEN <<>> ELSE skipped, <<>>)

\* apply_fixes_to_file up to the for loop of apply_fixes: read the file, then
\* either return at once (no fixes, no eligible fix) or filter, sort and parse;
\* a ParserSyntaxError leaves the call.
EnterApplyFixes(text, fs) ==
    LET filtered == filter_by_safety(fs, apply_dangerous)
        eligible == filtered[1]
        skipped == filtered[2]
        early == fs = <<>> \/ eligible = <<>>
        entered == ~early /\ ~ParseFails(text)
    IN  /\ fixes' = fs
        /\ source_code' = text
        /\ writes' = 0
        /\ applied' = <<>>
        /\ conflicts' = <<>>
        /\ applied_positions' = <<>>
        /\ invoked' = <<>>
        /\ idx' = 1
        /\ result' = IF early THEN <<EarlyResult(text, fs, skipped)>> ELSE <<>>
        /\ skipped_fixes' = IF entered THEN skipped ELSE <<>>
        /\ sorted_fixes' = IF entered THEN sort_fixes_by_position(eligible) ELSE <<>>
        /\ module' = IF entered THEN parse_module(text) ELSE <<>>
        /\ pc' = IF early THEN "returned" ELSE IF entered THEN "loop" ELSE "raised"

\* apply_fixes_to_file on the file the model follows.
Enter(fs) ==
    /\ EnterApplyFixes(disk, fs)
    /\ UNCHANGED <<disk, apply_dangerous, simulate>>

\* engine.apply_fixes_to_file( file_path, fixes, simulate )
ApplyFixesToFile ==
    /\ pc = "idle"
    /\ rpc = "idle"
    /\ \E n \in 0..MaxFixes :
           \E a \in [1..n -> FixAttributes] : Enter(MakeFixes(a))
    /\ UNCHANGED <<lintvars, auxvars>>

InLoop == pc = "loop" /\ idx <= Len(sorted_fixes)

\* A turn that names the skipped fix itself as the conflicting one.
OverlapConflictNamesItself ==
    /\ pc = "loop" /\ idx <= Len(sorted_fixes)
    /\ PositionOfFix(sorted_fixes[idx]) \in DOMAIN applied_positions
    /\ conflicts' = Append(conflicts,
           [skipped_fix |-> sorted_fixes[idx],
            conflicting_fix |-> sorted_fixes[idx],
            reason |-> "Overlapping fix location."])
    /\ idx' = idx + 1
    /\ UNCHANGED <<disk, writes, apply_dangerous, pc, fixes, simulate, source_code,
                   skipped_fixes, sorted_fixes, module, applied,
                   applied_positions, invoked, result, lintvars, auxvars>>

\* One turn of the for loop: the position is already claimed.
OverlapConflict ==
    /\ InLoop
    /\ LET fix == sorted_fixes[idx]
           position == PositionOfFix(fix)
       IN  /\ position \in DOMAIN applied_positions
           /\ conflicts' = Append(conflicts,
                  [skipped_fix |-> fix,
                   conflicting_fix |-> applied_positions[position],
                   reason |-> "Overlapping fix location."])
    /\ idx' = idx + 1
    /\ UNCHANGED <<disk, writes, apply_dangerous, pc, fixes, simulate, source_code,
                   skipped_fixes, sorted_fixes, module, applied,
                   applied_positions, invoked, result, lintvars, auxvars>>

\* A turn that applies the fix and does not claim its position.
TransformAppliedWithoutClaim ==
    /\ pc = "loop" /\ idx <= Len(sorted_fixes)
    /\ PositionOfFix(sorted_fixes[idx]) \notin DOMAIN applied_positions
    /\ ~Raises(sorted_fixes[idx])
    /\ module' = Transformed(sorted_fixes[idx], module)
    /\ applied' = Append(applied, sorted_fixes[idx])
    /\ idx' = idx + 1
    /\ invoked' = Append(invoked, sorted_fixes[idx])
    /\ UNCHANGED <<disk, writes, apply_dangerous, pc, fixes, simulate, source_code,
                   skipped_fixes, sorted_fixes, conflicts, applied_positions,
                   result, lintvars, auxvars>>

\* One turn of the for loop: the transformer returns a tree.
TransformApplied ==
    /\ InLoop
    /\ LET fix == sorted_fixes[idx]
           position == PositionOfFix(fix)
       IN  /\ position \notin DOMAIN applied_positions
           /\ ~Raises(fix)
           /\ module' = Transformed(fix, module)
           /\ applied' = Append(applied, fix)
           /\ applied_positions' =
                  [p \in DOMAIN applied_positions \cup {position} |->
                      IF p = position THEN fix ELSE applied_positions[p]]
    /\ idx' = idx + 1
    /\ invoked' = Append(invoked, sorted_fixes[idx])
    /\ UNCHANGED <<disk, writes, apply_dangerous, pc, fixes, simulate, source_code,
                   skipped_fixes, sorted_fixes, conflicts, result, lintvars, auxvars>>

\* A turn in which the failing fix is dropped: no conflict is recorded.
TransformFailedDropsFix ==
    /\ pc = "loop" /\ idx <= Len(sorted_fixes)
    /\ PositionOfFix(sorted_fixes[idx]) \notin DOMAIN applied_positions
    /\ Raises(sorted_fixes[idx])
    /\ idx' = idx + 1
    /\ invoked' = Append(invoked, sorted_fixes[idx])
    /\ UNCHANGED <<disk, writes, apply_dangerous, pc, fixes, simulate, source_code,
                   skipped_fixes, sorted_fixes, module, applied, conflicts,
                   applied_positions, result, lintvars, auxvars>>

\* A turn in which the exception of the transformer leaves apply_fixes.
TransformFailedPropagates ==
    /\ pc = "loop" /\ idx <= Len(sorted_fixes)
    /\ PositionOfFix(sorted_fixes[idx]) \notin DOMAIN applied_positions
    /\ Raises(sorted_fixes[idx])
    /\ pc' = "raised"
    /\ invoked' = Append(invoked, sorted_fixes[idx])
    /\ UNCHANGED <<disk, writes, apply_dangerous, fixes, simulate, source_code,
                   skipped_fixes, sorted_fixes, idx, module, applied, conflicts,
                   applied_positions, result, lintvars, auxvars>>

\* A turn in which the failing fix claims its position.
TransformFailedClaimsPosition ==
    /\ pc = "loop" /\ idx <= Len(sorted_fixes)
    /\ PositionOfFix(sorted_fixes[idx]) \notin DOMAIN applied_positions
    /\ Raises(sorted_fixes[idx])
    /\ conflicts' = Append(conflicts,
           [skipped_fix |-> sorted_fixes[idx], conflicting_fix |-> sorted_fixes[idx],
            reason |-> "Transformation failed."])
    /\ applied_positions' =
           [p \in DOMAIN applied_positions \cup {PositionOfFix(sorted_fixes[idx])} |->
               IF p = PositionOfFix(sorted_fixes[idx]) THEN sorted_fixes[idx]
               ELSE applied_positions[p]]
    /\ invoked' = Append(invoked, sorted_fixes[idx])
    /\ idx' = idx + 1
    /\ UNCHANGED <<disk, writes, apply_dangerous, pc, fixes, simulate, source_code,
                   skipped_fixes, sorted_fixes, module, applied, result,
                   lintvars, auxvars>>

\* One turn of the for loop: the transformer raises.
TransformFailed ==
    /\ InLoop
    /\ LET fix == sorted_fixes[idx]
           position == PositionOfFix(fix)
       IN  /\ position \notin DOMAIN applied_positions
           /\ Raises(fix)
           /\ conflicts' = Append(conflicts,
                  [skipped_fix |-> fix, conflicting_fix |-> fix,
                   reason |-> "Transformation failed."])
    /\ idx' = idx + 1
    /\ invoked' = Append(invoked, sorted_fixes[idx])
    /\ UNCHANGED <<disk, writes, apply_dangerous, pc, fixes, simulate, source_code,
                   skipped_fixes, sorted_fixes, module, applied,
                   applied_positions, result, lintvars, auxvars>>

\* A return that gives the text read as modified_source.
ReturnResultOriginalText ==
    /\ pc = "loop"
    /\ idx > Len(sorted_fixes)
    /\ result' = <<FixApplicationResult(source_code, source_code, applied,
                                        skipped_fixes, conflicts)>>
    /\ pc' = "returned"
    /\ UNCHANGED <<disk, writes, apply_dangerous, fixes, simulate, source_code,
                   skipped_fixes, sorted_fixes, idx, module, applied, conflicts,
                   applied_positions, invoked, lintvars, auxvars>>

\* The loop is over: apply_fixes renders the tree and returns.
ReturnResult ==
    /\ pc = "loop"
    /\ idx > Len(sorted_fixes)
    /\ result' = <<FixApplicationResult(source_code, Code(module), applied,
                                        skipped_fixes, conflicts)>>
    /\ pc' = "returned"
    /\ UNCHANGED <<disk, writes, apply_dangerous, fixes, simulate, source_code,
                   skipped_fixes, sorted_fixes, idx, module, applied, conflicts,
                   applied_positions, invoked, lintvars, auxvars>>

\* The test without "and not simulate".
ShouldWriteIgnoringSimulate(r, sim) == Len(r.applied_fixes) > 0

\* if result.has_changes and not simulate
ShouldWrite(r, sim) == has_changes(r) /\ ~sim

\* The values of simulate: either one for a call on its own, the one of the
\* run for a call made by _collect_and_apply_fixes.
Simulations == IF rpc = "idle" THEN BOOLEAN ELSE {run_simulate}

\* file_path.write_text succeeds.
Writable == IF rpc = "idle" THEN TRUE ELSE fix_paths[ri].writable

\* apply_fixes_to_file after apply_fixes has returned: simulate, which
\* apply_fixes does not take and the call reads nowhere else, is drawn here.
WriteBack ==
    /\ pc = "returned"
    /\ \E sim \in Simulations :
           /\ simulate' = sim
           /\ IF ShouldWrite(result[1], sim)
              THEN /\ Writable
                   /\ disk' = result[1].modified_source
                   /\ writes' = writes + 1
              ELSE UNCHANGED <<disk, writes>>
    /\ pc' = "done"
    /\ UNCHANGED <<apply_dangerous, fixes, source_code, skipped_fixes,
                   sorted_fixes, idx, module, applied, conflicts,
                   applied_positions, invoked, result, lintvars, auxvars>>

\* ----------------------------------------------------- Engine.lint_source
\* Longest sequence of violations the rules of one analysis find together.
MaxViolations == 3
\* Largest context_size of an EngineConfiguration.
MaxContext == 1

\* The rules of the registry the model enables.
RuleIds == {"VBL101", "VBL103"}

\* The orders in which a set of rule codes can be iterated.
Orders(S) ==
    {o \in [1..Cardinality(S) -> S] : \A i, j \in DOMAIN o : i # j => o[i] # o[j]}

\* The sequences of n violations a rule can hold after its visit; n numbers the
\* violation objects of one rule.
ViolationsOf(rule_id, n) ==
    {[i \in 1..n |-> [rule_id |-> rule_id, line |-> a[i][1], column |-> a[i][2],
                      n |-> i]] : a \in [1..n -> Positions]}

RECURSIVE Flatten(_)
\* all_violations after the extend loop: the violations of each rule, in the
\* order of the rules.
Flatten(seqs) ==
    IF seqs = <<>> THEN <<>> ELSE Head(seqs) \o Flatten(Tail(seqs))

\* A key without the column.
SortKeyLineOnly(v) == <<v.line, 0>>

\* A key without the line.
SortKeyColumnOnly(v) == <<0, v.column>>

\* key = lambda v: ( v.line, v.column )
SortKey(v) == <<v.line, v.column>>

\* An unstable insertion: before the elements with the same key.
InsertBeforeEquals(sorted, v) ==
    LET n == Cardinality({i \in DOMAIN sorted :
                 KeyLess(<<sorted[i].line, sorted[i].column>>, <<v.line, v.column>>)})
    IN  SubSeq(sorted, 1, n) \o <<v>> \o SubSeq(sorted, n + 1, Len(sorted))

\* Where list.sort puts one more element: behind every element whose key is
\* not larger (the sort is stable).
InsertAscending(sorted, v) ==
    LET n == Cardinality({i \in DOMAIN sorted : ~KeyLess(SortKey(v), SortKey(sorted[i]))})
    IN  SubSeq(sorted, 1, n) \o <<v>> \o SubSeq(sorted, n + 1, Len(sorted))

\* all_violations.sort( key = ... )
RECURSIVE sort_violations(_)
sort_violations(vs) ==
    IF vs = <<>> THEN <<>>
    ELSE InsertAscending(sort_violations(SubSeq(vs, 1, Len(vs) - 1)), vs[Len(vs)])

Max(a, b) == IF a > b THEN a ELSE b
Min(a, b) == IF a < b THEN a ELSE b

\* context.extract_contexts_for_violations: for each violation the lines from
\* size before it to size after it, clamped to the file.
extract_contexts_for_violations(vs, lines, size) ==
    [i \in DOMAIN vs |->
        LET first == Max(1, vs[i].line - size)
            last == Min(Len(lines), vs[i].line + size)
        IN  [violation |-> vs[i],
             context_lines |-> SubSeq(lines, first, last),
             context_start_line |-> first]]

Failure(type, message, rule_id, cause) ==
    [type |-> type, message |-> message, rule_id |-> rule_id, cause |-> cause]

\* A file with a generic suppression marker in the comment of its first line.
NoqaSource ==
    [l \in Lines |-> IF l = 1 THEN PristineSource[l] \o <<" ", "#", " ", "noqa">>
                     ELSE PristineSource[l]]

\* The texts given to lint_source.
SourceTexts == {PristineSource, BrokenSource, NoqaSource}

\* What a rule raises when it fails.
RuleExceptions == {"ValueError", "KeyError"}

\* filename = '<string>', the default of lint_source.
DefaultFilename == <<"<string>">>

\* Most violations the rules of one file find together in a batch.
MaxBatchViolations == 0

\* Violations the rules of the analysis under way may still find.
ViolationBudget ==
    (IF bpc = "idle" THEN MaxViolations ELSE MaxBatchViolations) - Len(Flatten(found))

\* lint_source ends in the exception e.
Raise(e) ==
    /\ lpc' = "raised"
    /\ error' = <<e>>
    /\ UNCHANGED <<enabled_rules, include_context, context_size, report>>

\* lint_source( text, name ) up to the instantiation loop: parse the source,
\* split it into lines, wrap the tree.  A ParserSyntaxError is caught by the
\* outer "except Exception" and wrapped.
EnterLintSource(text, name) ==
    \E order \in Orders(enabled_rules), metadata_ok \in BOOLEAN :
        /\ filename' = name
        /\ rule_order' = order
        /\ rules' = <<>>
        /\ visited' = 0
        /\ found' = <<>>
        /\ traversals' = <<>>
        /\ IF ParseFails(text)
           THEN /\ source_lines' = <<>>
                /\ Raise(Failure("RuleExecuteFailure", "Unexpected error during analysis",
                                 "", "ParserSyntaxError"))
           ELSE /\ source_lines' = text
                /\ IF metadata_ok
                   THEN /\ lpc' = IF order = <<>> THEN "visit" ELSE "instantiate"
                        /\ UNCHANGED <<enabled_rules, include_context, context_size,
                                       report, error>>
                   ELSE Raise(Failure("MetadataProvideFailure",
                                      "Failed to initialize LibCST metadata providers",
                                      "", "Exception"))

\* engine.lint_source( source_code ) called on its own.
LintSource ==
    /\ lpc = "idle"
    /\ bpc = "idle"
    /\ \E text \in SourceTexts : EnterLintSource(text, DefaultFilename)
    /\ UNCHANGED <<fixvars, auxvars>>

\* One turn of the instantiation loop: produce_rule_instance returns a rule.
InstantiateRule ==
    /\ lpc = "instantiate"
    /\ rules' = Append(rules, rule_order[Len(rules) + 1])
    /\ lpc' = IF Len(rules) + 1 = Len(rule_order) THEN "visit" ELSE "instantiate"
    /\ UNCHANGED <<enabled_rules, include_context, context_size, filename,
                   source_lines, rule_order, visited, found, traversals, report,
                   error, fixvars, auxvars>>

\* One turn of the instantiation loop: produce_rule_instance raises.
InstantiateFails ==
    /\ lpc = "instantiate"
    /\ \E exc \in RuleExceptions :
           Raise(Failure("RuleExecuteFailure", "Failed to instantiate rule",
                         rule_order[Len(rules) + 1], exc))
    /\ UNCHANGED <<filename, source_lines, rule_order, rules, visited, found,
                   traversals, fixvars, auxvars>>

\* One turn of the traversal loop: wrapper.visit( rule ) walks the tree with
\* the rule as its visitor and returns, and the rule holds the violations it
\* found.
VisitRule ==
    /\ lpc = "visit"
    /\ visited < Len(rules)
    /\ \E n \in 0..ViolationBudget :
          \E vs \in ViolationsOf(rules[visited + 1], n) : found' = Append(found, vs)
    /\ visited' = visited + 1
    /\ traversals' = Append(traversals, [visitor |-> rules[visited + 1],
                                         completed |-> TRUE])
    /\ UNCHANGED <<enabled_rules, include_context, context_size, lpc, filename,
                   source_lines, rule_order, rules, report, error, fixvars, auxvars>>

\* A failure during traversal that is blamed on the first rule of the list.
VisitFailsNamesFirstRule ==
    /\ lpc = "visit"
    /\ visited < Len(rules)
    /\ \E exc \in RuleExceptions :
           Raise(Failure("RuleExecuteFailure", "Rule failed during analysis",
                         rules[1], exc))
    /\ traversals' = Append(traversals, [visitor |-> rules[visited + 1],
                                         completed |-> FALSE])
    /\ UNCHANGED <<filename, source_lines, rule_order, rules, visited, found,
                   fixvars, auxvars>>

\* A traversal loop that drops a failing rule and goes on with the next.
VisitFailsSkipsRule ==
    /\ lpc = "visit"
    /\ visited < Len(rules)
    /\ found' = Append(found, <<>>)
    /\ visited' = visited + 1
    /\ traversals' = Append(traversals, [visitor |-> rules[visited + 1],
                                         completed |-> FALSE])
    /\ UNCHANGED <<enabled_rules, include_context, context_size, lpc, filename,
                   source_lines, rule_order, rules, report, error, fixvars, auxvars>>

\* One turn of the traversal loop: wrapper.visit( rule ) raises.
VisitFails ==
    /\ lpc = "visit"
    /\ visited < Len(rules)
    /\ \E exc \in RuleExceptions :
           Raise(Failure("RuleExecuteFailure", "Rule failed during analysis",
                         rules[visited + 1], exc))
    /\ traversals' = Append(traversals, [visitor |-> rules[visited + 1],
                                         completed |-> FALSE])
    /\ UNCHANGED <<filename, source_lines, rule_order, rules, visited, found,
                   fixvars, auxvars>>

\* A return that extracts the contexts whatever include_context says.
ReturnWithContextsAlways ==
    /\ lpc = "visit"
    /\ visited = Len(rules)
    /\ LET all_violations == sort_violations(Flatten(found))
       IN  report' = <<[violations |-> all_violations,
                        contexts |-> extract_contexts_for_violations(
                                         all_violations, source_lines, context_size),
                        filename |-> filename,
                        rule_count |-> Len(rules)]>>
    /\ lpc' = "done"
    /\ UNCHANGED <<enabled_rules, include_context, context_size, filename,
                   source_lines, rule_order, rules, visited, found, traversals,
                   error, fixvars, auxvars>>

\* lint_source after the traversal: collect, sort, extract contexts, return.
ReturnReport ==
    /\ lpc = "visit"
    /\ visited = Len(rules)
    /\ LET all_violations == sort_violations(Flatten(found))
           violation_contexts ==
               IF include_context /\ all_violations # <<>>
               THEN extract_contexts_for_violations(all_violations, source_lines,
                                                    context_size)
               ELSE <<>>
       IN  report' = <<[violations |-> all_violations,
                        contexts |-> violation_contexts,
                        filename |-> filename,
                        rule_count |-> Len(rules)]>>
    /\ lpc' = "done"
    /\ UNCHANGED <<enabled_rules, include_context, context_size, filename,
                   source_lines, rule_order, rules, visited, found, traversals,
                   error, fixvars, auxvars>>

\* ------------------------------------------------------ Engine.lint_files
\* Longest sequence of paths handed to lint_files.
MaxFiles == 3

\* What can be at a path: a file read_text cannot read, or a file and its text.
Files ==
    {[readable |-> TRUE, text |-> t] : t \in {PristineSource, BrokenSource}}
        \cup {[readable |-> FALSE, text |-> <<>>]}

\* str( file_path ) of the i-th path of the call.
PathName(i) == <<"path", i>>

\* The locals of a lint_source call that has ended are gone.
LeaveLintSource ==
    /\ lpc' = "idle"
    /\ filename' = <<>>
    /\ source_lines' = <<>>
    /\ rule_order' = <<>>
    /\ rules' = <<>>
    /\ visited' = 0
    /\ found' = <<>>
    /\ traversals' = <<>>
    /\ report' = <<>>
    /\ error' = <<>>
    /\ UNCHANGED <<enabled_rules, include_context, context_size>>

\* engine.lint_files( file_paths ) up to the for loop.
LintFiles ==
    /\ bpc = "idle"
    /\ lpc = "idle"
    /\ \E n \in 0..MaxFiles : \E fs \in [1..n -> Files] : file_paths' = fs
    /\ fi' = 1
    /\ reports' = <<>>
    /\ bpc' = "loop"
    /\ UNCHANGED <<returned, fixvars, runvars, vblvars, lintvars, filtervars>>

\* One turn of the loop, lint_file: read_text raises, the except clause of
\* lint_files continues with the next path.
ReadFails ==
    /\ bpc = "loop"
    /\ fi <= Len(file_paths)
    /\ ~file_paths[fi].readable
    /\ fi' = fi + 1
    /\ UNCHANGED <<bpc, file_paths, reports, returned, fixvars, runvars, vblvars, lintvars, filtervars>>

\* One turn of the loop, lint_file: read_text returns the text and lint_source
\* is called with it and str( file_path ).
LintFile ==
    /\ bpc = "loop"
    /\ fi <= Len(file_paths)
    /\ file_paths[fi].readable
    /\ EnterLintSource(file_paths[fi].text, PathName(fi))
    /\ bpc' = "file"
    /\ UNCHANGED <<file_paths, fi, reports, returned, fixvars, runvars, vblvars, filtervars>>

\* lint_file has returned a Report: reports.append( report ).
AppendReport ==
    /\ bpc = "file"
    /\ lpc = "done"
    /\ reports' = Append(reports, report[1])
    /\ fi' = fi + 1
    /\ bpc' = "loop"
    /\ LeaveLintSource
    /\ UNCHANGED <<file_paths, returned, fixvars, runvars, vblvars, filtervars>>

\* An except clause that gives up the batch.
ErrorEndsBatch ==
    /\ bpc = "file"
    /\ lpc = "raised"
    /\ fi' = Len(file_paths) + 1
    /\ bpc' = "loop"
    /\ LeaveLintSource
    /\ UNCHANGED <<file_paths, reports, returned, fixvars, runvars, vblvars, filtervars>>

\* lint_file has raised: except Exception: continue.
ContinueOnError ==
    /\ bpc = "file"
    /\ lpc = "raised"
    /\ fi' = fi + 1
    /\ bpc' = "loop"
    /\ LeaveLintSource
    /\ UNCHANGED <<file_paths, reports, returned, fixvars, runvars, vblvars, filtervars>>

\* The loop is over: return tuple( reports ).
ReturnReports ==
    /\ bpc = "loop"
    /\ fi > Len(file_paths)
    /\ returned' = <<reports>>
    /\ bpc' = "done"
    /\ UNCHANGED <<file_paths, fi, reports, fixvars, runvars, vblvars, lintvars, filtervars>>

\* ------------------------------------------------------ suppression filter
\* Longest sequence of violations handed to the filter.
MaxFiltered == 2

\* The registry: the descriptive name of each VBL code.
Registry == [c \in RuleIds |->
                IF c = "VBL101" THEN "blank-line-elimination" ELSE "bracket-spacing"]

\* RuleRegistryManager._name_to_code
name_to_code(name) == CHOOSE c \in DOMAIN Registry : Registry[c] = name

\* A resolution that knows the VBL codes only and passes anything else on.
ResolveCodesOnly(identifier) == [found |-> TRUE, code |-> identifier]

\* RuleRegistryManager.resolve_rule_identifier: the code itself, the code of a
\* descriptive name, or RuleRegistryInvalidity (found = FALSE).
resolve_rule_identifier(identifier) ==
    IF identifier \in DOMAIN Registry
    THEN [found |-> TRUE, code |-> identifier]
    ELSE IF \E c \in DOMAIN Registry : Registry[c] = identifier
         THEN [found |-> TRUE, code |-> name_to_code(identifier)]
         ELSE [found |-> FALSE, code |-> identifier]

\* The comment forms of a source line: none, an ordinary comment, the generic
\* marker, the scoped marker.
CommentKinds == {"none", "plain", "generic", "scoped"}

\* The lists of rule identifiers of a scoped marker.
MarkerLists ==
    {<<"VBL101">>, <<"VBL103">>, <<"VBL101", "VBL103">>, <<"VBL103", "VBL101">>}

RECURSIVE JoinIds(_, _)
\* The identifiers with commas between them; wide: with spaces around each.
JoinIds(ids, wide) ==
    IF ids = <<>> THEN <<>>
    ELSE (IF wide THEN <<" ", Head(ids), " ">> ELSE <<Head(ids)>>)
         \o (IF Tail(ids) = <<>> THEN <<>> ELSE <<",">> \o JoinIds(Tail(ids), wide))

\* A source line "x" with a comment of the kind: 'x', 'x # text', 'x # noqa',
\* 'x # noqa: A,B'; wide: as in 'x #   noqa:   A  ,  B   '.
SourceLine(kind, ids, wide) ==
    LET gap == IF wide THEN <<" ", " ">> ELSE <<" ">>
    IN  IF kind = "none" THEN <<"x">>
        ELSE IF kind = "plain" THEN <<"x", " ", "#">> \o gap \o <<"text">>
        ELSE IF kind = "generic" THEN <<"x", " ", "#">> \o gap \o <<"noqa">>
        ELSE <<"x", " ", "#">> \o gap \o <<"noqa", ":">> \o gap \o JoinIds(ids, wide)

\* The lines the suppression extraction is tried on.
SourceLines ==
    {SourceLine(k, <<>>, w) : k \in {"none", "plain", "generic"}, w \in BOOLEAN}
        \cup {SourceLine("scoped", ids, w) : ids \in MarkerLists, w \in BOOLEAN}

\* The tokens of the comment of a line, behind its "#".
CommentTokens(line) ==
    LET hashes == {i \in DOMAIN line : line[i] = "#"}
    IN  IF hashes = {} THEN <<>>
        ELSE LET first == CHOOSE i \in hashes : \A k \in hashes : i <= k
             IN  SubSeq(line, first + 1, Len(line))

RECURSIVE StripSpaces(_)
StripSpaces(tokens) ==
    IF tokens = <<>> THEN <<>>
    ELSE IF Head(tokens) = " " THEN StripSpaces(Tail(tokens))
    ELSE <<Head(tokens)>> \o StripSpaces(Tail(tokens))

\* The marker of a line: none, AllRulesSuppressed, or the set of listed rules.
ParseMarker(line) ==
    LET c == StripSpaces(CommentTokens(line))
    IN  IF c = <<>> \/ c[1] # "noqa"
        THEN [marked |-> FALSE, all |-> FALSE, rules |-> {}]
        ELSE IF Len(c) >= 2 /\ c[2] = ":"
        THEN [marked |-> TRUE, all |-> FALSE,
              rules |-> {c[k] : k \in 3..Len(c)} \ {","}]
        ELSE [marked |-> TRUE, all |-> TRUE, rules |-> {}]

\* An extraction that takes every comment for a generic marker.
EveryCommentSuppresses(lines) ==
    [n \in {k \in DOMAIN lines : CommentTokens(lines[k]) # <<>>} |->
        [all |-> TRUE, rules |-> {}]]

\* Engine._extract_suppressions( source_lines ): the suppression map, from
\* 1-based line numbers to AllRulesSuppressed (all) or a set of rules.
extract_suppressions(lines) ==
    [n \in {k \in DOMAIN lines : ParseMarker(lines[k]).marked} |->
        [all |-> ParseMarker(lines[n]).all, rules |-> ParseMarker(lines[n]).rules]]

\* Path components that are names of Python files.
PythonFiles == {"test.py", "test_foo.py"}

RECURSIVE GlobMatches(_, _)
\* The glob pattern matches the filename, both split at "/": "**" stands for
\* any number of directories, "*.py" for any name of a Python file.
GlobMatches(pattern, name) ==
    IF pattern = <<>> THEN name = <<>>
    ELSE IF Head(pattern) = "**"
         THEN \/ GlobMatches(Tail(pattern), name)
              \/ name # <<>> /\ GlobMatches(pattern, Tail(name))
    ELSE IF name = <<>> THEN FALSE
    ELSE IF Head(pattern) = "*.py"
         THEN Head(name) \in PythonFiles /\ GlobMatches(Tail(pattern), Tail(name))
    ELSE Head(pattern) = Head(name) /\ GlobMatches(Tail(pattern), Tail(name))

\* The canonical codes of a set of rule identifiers.
ResolveAll(identifiers) ==
    {resolve_rule_identifier(i).code : i \in identifiers}

\* The rules ignored for the filename: those of every matching key.
ignored_rules(name, ignores) ==
    UNION {ResolveAll(ignores[p]) : p \in {q \in DOMAIN ignores : GlobMatches(q, name)}}

\* A filter for which a scoped marker suppresses every rule on its line.
ScopedSuppressesAll(v, suppressions, ignored) ==
    v.rule_id \in ignored \/ v.line \in DOMAIN suppressions

\* The filter drops the violation.
IsDropped(v, suppressions, ignored) ==
    \/ v.rule_id \in ignored
    \/ /\ v.line \in DOMAIN suppressions
       /\ \/ suppressions[v.line].all
          \/ v.rule_id \in suppressions[v.line].rules

RECURSIVE Survivors(_, _, _)
Survivors(vs, suppressions, ignored) ==
    IF vs = <<>> THEN <<>>
    ELSE (IF IsDropped(Head(vs), suppressions, ignored) THEN <<>> ELSE <<Head(vs)>>)
         \o Survivors(Tail(vs), suppressions, ignored)

\* The survivors, last one first.
FilterReversed(vs, suppressions, name, ignores) ==
    LET kept == Survivors(vs, suppressions, ignored_rules(name, ignores))
    IN  [k \in DOMAIN kept |-> kept[Len(kept) + 1 - k]]

\* Engine._filter_violations( violations, suppressions, filename ), with the
\* per_file_ignores of the configuration.
filter_violations(vs, suppressions, name, ignores) ==
    Survivors(vs, suppressions, ignored_rules(name, ignores))

\* The suppression maps handed to the filter.
SuppressionMaps ==
    UNION {[S -> {[all |-> TRUE, rules |-> {}]}
                    \cup {[all |-> FALSE, rules |-> R] : R \in (SUBSET RuleIds) \ {{}}}]
           : S \in SUBSET Lines}

\* The violations handed to the filter: n numbers them.
FilterInputs(n) ==
    {[i \in 1..n |-> [rule_id |-> a[i][1], line |-> a[i][2], column |-> 1, n |-> i]]
        : a \in [1..n -> RuleIds \X Lines]}

\* The filenames and the keys of per_file_ignores, split at "/".
Filenames == {<<"tests", "unit", "test_foo.py">>}
Patterns == {<<"test.py">>, <<"**", "*.py">>, <<"tests", "**", "*.py">>}

\* The identifier tuples of per_file_ignores.
IgnoreLists == {{"blank-line-elimination"}, {"VBL103"}}

\* The per_file_ignores of a configuration: at most two keys.
PerFileIgnores ==
    UNION {[S -> IgnoreLists] : S \in {T \in SUBSET Patterns : Cardinality(T) <= 2}}

\* engine._extract_suppressions( source_lines )
ExtractSuppressions ==
    /\ flt_pc = "idle"
    /\ \E n \in 0..MaxLine : \E lines \in [1..n -> SourceLines] :
           /\ flt_lines' = lines
           /\ flt_suppressions' = extract_suppressions(lines)
    /\ flt_pc' = "extracted"
    /\ UNCHANGED <<flt_violations, flt_filename, per_file_ignores, flt_result,
                   fixvars, runvars, vblvars, lintvars, batchvars>>

\* engine._filter_violations( violations, suppressions, filename )
FilterViolations ==
    /\ flt_pc = "idle"
    /\ \E n \in 0..MaxFiltered, name \in Filenames, ignores \in PerFileIgnores,
          suppressions \in SuppressionMaps :
           \E vs \in FilterInputs(n) :
               /\ flt_violations' = vs
               /\ flt_filename' = name
               /\ per_file_ignores' = ignores
               /\ flt_suppressions' = suppressions
               /\ flt_result' = <<filter_violations(vs, suppressions, name, ignores)>>
    /\ flt_pc' = "filtered"
    /\ UNCHANGED <<flt_lines, fixvars, runvars, vblvars, lintvars, batchvars>>

\* ------------------------------------------- cli._collect_and_apply_fixes
\* Longest sequence of paths handed to a fix run.
MaxRunFiles == 3

\* The fixes collect_fixes_for_file finds in a file: Safe ones on the first
\* node, by what their transformers do.
RunFixLists == {<<"space">>, <<"raise">>, <<"space", "join">>}

\* What can be at a path: a file whose collection raises, a file without
\* fixes, or a file with fixes, its text when apply_fixes_to_file reads it
\* and whether write_text succeeds on it.
RunFiles ==
    {[collect |-> c, fixes |-> <<>>, text |-> PristineSource, writable |-> TRUE]
        : c \in {"raises", "none"}}
    \cup {[collect |-> "fixes", fixes |-> fs, text |-> PristineSource, writable |-> w]
        : fs \in RunFixLists, w \in BOOLEAN}
    \cup {[collect |-> "fixes", fixes |-> fs, text |-> BrokenSource, writable |-> TRUE]
        : fs \in RunFixLists}

\* fix_report.fixes for the file.
FixesOf(file) ==
    MakeFixes([i \in DOMAIN file.fixes |->
        [line |-> 1, column |-> 1, safety |-> "safe",
         transformer_factory |-> file.fixes[i]]])

\* The locals of an apply_fixes_to_file call that has ended are gone.
LeaveApplyFixes ==
    /\ pc' = "idle"
    /\ writes' = 0
    /\ fixes' = <<>>
    /\ simulate' = FALSE
    /\ source_code' = <<>>
    /\ skipped_fixes' = <<>>
    /\ sorted_fixes' = <<>>
    /\ idx' = 1
    /\ module' = <<>>
    /\ applied' = <<>>
    /\ conflicts' = <<>>
    /\ applied_positions' = <<>>
    /\ invoked' = <<>>
    /\ result' = <<>>
    /\ UNCHANGED <<disk, apply_dangerous>>

\* _collect_and_apply_fixes( file_paths, ..., simulate ) up to the for loop;
\* without paths it returns the empty tuple at once.
CollectAndApplyFixes ==
    /\ rpc = "idle"
    /\ pc = "idle"
    /\ \E n \in 0..MaxRunFiles : \E fs \in [1..n -> RunFiles] :
           /\ fix_paths' = fs
           /\ rpc' = IF n = 0 THEN "done" ELSE "loop"
           /\ run_returned' = IF n = 0 THEN <<<<>>>> ELSE <<>>
    /\ run_simulate' \in BOOLEAN
    /\ ri' = 1
    /\ file_results' = <<>>
    /\ UNCHANGED <<fixvars, lintvars, batchvars, filtervars, vblvars>>

RunLoop == rpc = "loop" /\ ri <= Len(fix_paths)

\* One turn of the loop: collect_fixes_for_file raises, except: continue.
CollectFails ==
    /\ RunLoop
    /\ fix_paths[ri].collect = "raises"
    /\ ri' = ri + 1
    /\ UNCHANGED <<rpc, fix_paths, run_simulate, file_results, run_returned,
                   fixvars, lintvars, batchvars, filtervars, vblvars>>

\* One turn of the loop: if not fix_report.fixes: continue.
NoFixes ==
    /\ RunLoop
    /\ fix_paths[ri].collect = "none"
    /\ ri' = ri + 1
    /\ UNCHANGED <<rpc, fix_paths, run_simulate, file_results, run_returned,
                   fixvars, lintvars, batchvars, filtervars, vblvars>>

\* One turn of the loop: apply_fixes_to_file is called on the file at the
\* path with the fixes collected.
ApplyToFile ==
    /\ RunLoop
    /\ fix_paths[ri].collect = "fixes"
    /\ disk' = fix_paths[ri].text
    /\ EnterApplyFixes(fix_paths[ri].text, FixesOf(fix_paths[ri]))
    /\ rpc' = "file"
    /\ UNCHANGED <<apply_dangerous, simulate, fix_paths, run_simulate, ri,
                   file_results, run_returned, lintvars, batchvars, filtervars, vblvars>>

\* file_path.write_text raises.
WriteFails ==
    /\ rpc = "file"
    /\ pc = "returned"
    /\ ShouldWrite(result[1], run_simulate)
    /\ ~fix_paths[ri].writable
    /\ simulate' = run_simulate
    /\ pc' = "raised"
    /\ UNCHANGED <<disk, writes, apply_dangerous, fixes, source_code, skipped_fixes,
                   sorted_fixes, idx, module, applied, conflicts,
                   applied_positions, invoked, result, lintvars, auxvars>>

\* apply_fixes_to_file has returned: file_results.append( file_result ); the
\* result carries filename = str( file_path ).
AppendResult ==
    /\ rpc = "file"
    /\ pc = "done"
    /\ file_results' =
           Append(file_results, [filename |-> PathName(ri)] @@ result[1])
    /\ ri' = ri + 1
    /\ rpc' = "loop"
    /\ LeaveApplyFixes
    /\ UNCHANGED <<fix_paths, run_simulate, run_returned,
                   lintvars, batchvars, filtervars, vblvars>>

\* An except clause that ends the run.
FixErrorEndsRun ==
    /\ rpc = "file"
    /\ pc = "raised"
    /\ ri' = Len(fix_paths) + 1
    /\ rpc' = "loop"
    /\ LeaveApplyFixes
    /\ UNCHANGED <<fix_paths, run_simulate, file_results, run_returned,
                   lintvars, batchvars, filtervars, vblvars>>

\* apply_fixes_to_file has raised: except Exception: continue.
ContinueOnFixError ==
    /\ rpc = "file"
    /\ pc = "raised"
    /\ ri' = ri + 1
    /\ rpc' = "loop"
    /\ LeaveApplyFixes
    /\ UNCHANGED <<fix_paths, run_simulate, file_results, run_returned,
                   lintvars, batchvars, filtervars, vblvars>>

\* The loop is over: return tuple( file_results ).
ReturnResults ==
    /\ rpc = "loop"
    /\ ri > Len(fix_paths)
    /\ run_returned' = <<file_results>>
    /\ rpc' = "done"
    /\ UNCHANGED <<fix_paths, run_simulate, ri, file_results,
                   fixvars, lintvars, batchvars, filtervars, vblvars>>

\* ------------------------------------------------------------- VBL101
\* Deepest nesting of function definitions, and longest run of blank lines, in
\* the sources VBL101 is run on.
MaxNesting == 2
MaxBlanks == 2

\* max_consecutive_blanks: int = 1
DefaultMaxBlanks == 1

\* A source line: a def line or a statement at an indentation depth, or a
\* blank line.
BlankLine == [kind |-> "blank", depth |-> 0]
DefLine(d) == [kind |-> "def", depth |-> d]
StatementLine(d) == [kind |-> "stmt", depth |-> d]

BlankLines(k) == [i \in 1..k |-> BlankLine]

RECURSIVE Headers(_, _, _)
\* The def lines of functions i..n nested in each other, lead blank lines
\* before each inner one.
Headers(i, n, lead) ==
    IF i > n THEN <<>>
    ELSE (IF i = 1 THEN <<>> ELSE BlankLines(lead))
         \o <<DefLine(i - 1)>> \o Headers(i + 1, n, lead)

\* A source: n functions nested in each other, the innermost with two
\* statements and gap blank lines between them, every outer one ending in a
\* return statement (n = 0: the two statements at module level).
NestedSource(n, lead, gap) ==
    Headers(1, n, lead)
        \o <<StatementLine(n)>> \o BlankLines(gap) \o <<StatementLine(n)>>
        \o [k \in 1..(n - 1) |-> StatementLine(n - k)]

\* "def f():\n    x = 1\n\n    y = 2\n"
SingleBlankSource == NestedSource(1, 0, 1)

\* not line.strip( )
IsBlank(line) == line.kind = "blank"

\* The lines of the FunctionDef nodes, in the order of the traversal.
DefLines(lines) == {l \in DOMAIN lines : lines[l].kind = "def"}

\* PositionProvider: position.end.line of the FunctionDef that starts at line
\* s: the last line of its body.
EndLine(lines, s) ==
    LET outside == {l \in (s + 1)..Len(lines) :
                       ~IsBlank(lines[l]) /\ lines[l].depth <= lines[s].depth}
        limit == IF outside = {} THEN Len(lines)
                 ELSE (CHOOSE l \in outside : \A k \in outside : l <= k) - 1
        body == {l \in (s + 1)..limit : ~IsBlank(lines[l])}
    IN  CHOOSE l \in body : \A k \in body : k <= l

\* _report_consecutive_blanks( func_node, line_num, count )
ConsecutiveBlanksViolation(first, count) ==
    [rule_id |-> "VBL101", line |-> first, column |-> 1, severity |-> "warning",
     message |-> <<"Found ", count, " consecutive blank lines">>]

\* VBL101( filename, wrapper, source_lines[, max_consecutive_blanks] ) and the
\* start of wrapper.visit( rule ).
RunVBL101 ==
    /\ vpc = "idle"
    /\ \E n \in 0..MaxNesting, lead \in 0..MaxBlanks, gap \in 0..MaxBlanks :
           v_source_lines' = NestedSource(n, lead, gap)
    /\ max_consecutive_blanks' \in 0..DefaultMaxBlanks
    /\ function_ranges' = <<>>
    /\ v_violations' = <<>>
    /\ vpc' = "visit"
    /\ UNCHANGED <<range_idx, line_num, consecutive_blanks, blank_start_line,
                   fixvars, lintvars, batchvars, filtervars, runvars>>

\* The def line of the next FunctionDef of the traversal.
NextDef ==
    LET seen == {function_ranges[k][1] : k \in DOMAIN function_ranges}
        left == DefLines(v_source_lines) \ seen
    IN  CHOOSE l \in left : \A k \in left : l <= k

\* visit_FunctionDef( node )
VisitFunctionDef ==
    /\ vpc = "visit"
    /\ Len(function_ranges) < Cardinality(DefLines(v_source_lines))
    /\ function_ranges' =
           Append(function_ranges, <<NextDef, EndLine(v_source_lines, NextDef)>>)
    /\ UNCHANGED <<vpc, v_source_lines, max_consecutive_blanks, range_idx, line_num,
                   consecutive_blanks, blank_start_line, v_violations,
                   fixvars, lintvars, batchvars, filtervars, runvars>>

\* The start of the turn of the outer loop for the range at place k.
StartRange(k) ==
    /\ range_idx' = k
    /\ line_num' = IF k <= Len(function_ranges) THEN function_ranges[k][1] + 1 ELSE 0
    /\ consecutive_blanks' = 0
    /\ blank_start_line' = 0

\* The traversal is over: the rule analyses what it has collected.
AnalyzeCollections ==
    /\ vpc = "visit"
    /\ Len(function_ranges) = Cardinality(DefLines(v_source_lines))
    /\ StartRange(1)
    /\ vpc' = IF function_ranges = <<>> THEN "done" ELSE "analyze"
    /\ UNCHANGED <<v_source_lines, max_consecutive_blanks, function_ranges,
                   v_violations, fixvars, lintvars, batchvars, filtervars, runvars>>

\* The inner loop goes on: line_num is in the range and in the source.
InRange ==
    /\ vpc = "analyze"
    /\ line_num <= function_ranges[range_idx][2]
    /\ line_num - 1 < Len(v_source_lines)

\* One turn of the inner loop of _analyze_collections.
ScanLine ==
    /\ InRange
    /\ IF IsBlank(v_source_lines[line_num])
       THEN /\ blank_start_line' =
                   IF consecutive_blanks = 0 THEN line_num ELSE blank_start_line
            /\ consecutive_blanks' = consecutive_blanks + 1
            /\ UNCHANGED v_violations
       ELSE /\ v_violations' =
                   IF consecutive_blanks > max_consecutive_blanks
                   THEN Append(v_violations,
                            ConsecutiveBlanksViolation(blank_start_line,
                                                       consecutive_blanks))
                   ELSE v_violations
            /\ consecutive_blanks' = 0
            /\ UNCHANGED blank_start_line
    /\ line_num' = line_num + 1
    /\ UNCHANGED <<vpc, v_source_lines, max_consecutive_blanks, function_ranges,
                   range_idx, fixvars, lintvars, batchvars, filtervars, runvars>>

\* The inner loop is over: the check for blank lines at the end of the
\* function, then the next range.
EndRange ==
    /\ vpc = "analyze"
    /\ ~InRange
    /\ v_violations' =
           IF consecutive_blanks > max_consecutive_blanks
           THEN Append(v_violations,
                    ConsecutiveBlanksViolation(blank_start_line, consecutive_blanks))
           ELSE v_violations
    /\ StartRange(range_idx + 1)
    /\ vpc' = IF range_idx = Len(function_ranges) THEN "done" ELSE "analyze"
    /\ UNCHANGED <<v_source_lines, max_consecutive_blanks, function_ranges,
                   fixvars, lintvars, batchvars, filtervars, runvars>>

\* No call of the fix engine is under way.
FixIdle ==
    /\ writes = 0
    /\ pc = "idle"
    /\ fixes = <<>>
    /\ simulate = FALSE
    /\ source_code = <<>>
    /\ skipped_fixes = <<>>
    /\ sorted_fixes = <<>>
    /\ idx = 1
    /\ module = <<>>
    /\ applied = <<>>
    /\ conflicts = <<>>
    /\ applied_positions = <<>>
    /\ invoked = <<>>
    /\ result = <<>>

\* No call of the lint engine is under way.
LintIdle ==
    /\ lpc = "idle"
    /\ filename = <<>>
    /\ source_lines = <<>>
    /\ rule_order = <<>>
    /\ rules = <<>>
    /\ visited = 0
    /\ found = <<>>
    /\ traversals = <<>>
    /\ report = <<>>
    /\ error = <<>>

\* No call of lint_files is under way.
BatchIdle ==
    /\ bpc = "idle"
    /\ file_paths = <<>>
    /\ fi = 1
    /\ reports = <<>>
    /\ returned = <<>>

\* The suppression filter is not in use.
FilterIdle ==
    /\ flt_pc = "idle"
    /\ flt_lines = <<>>
    /\ flt_suppressions = <<>>
    /\ flt_violations = <<>>
    /\ flt_filename = <<>>
    /\ per_file_ignores = <<>>
    /\ flt_result = <<>>

\* No fix run is under way.
RunIdle ==
    /\ rpc = "idle"
    /\ fix_paths = <<>>
    /\ run_simulate = FALSE
    /\ ri = 1
    /\ file_results = <<>>
    /\ run_returned = <<>>

\* No VBL101 rule is in use.
VblIdle ==
    /\ vpc = "idle"
    /\ v_source_lines = <<>>
    /\ max_consecutive_blanks = DefaultMaxBlanks
    /\ function_ranges = <<>>
    /\ range_idx = 1
    /\ line_num = 0
    /\ consecutive_blanks = 0
    /\ blank_start_line = 0
    /\ v_violations = <<>>

\* FixEngine( apply_dangerous ) and a file to fix; no lint engine in use.
Init ==
    /\ disk \in {PristineSource, BrokenSource}
    /\ apply_dangerous \in BOOLEAN
    /\ FixIdle
    /\ enabled_rules = {}
    /\ include_context = FALSE
    /\ context_size = 0
    /\ LintIdle
    /\ BatchIdle
    /\ FilterIdle
    /\ RunIdle
    /\ VblIdle

Next ==
    \/ ApplyFixesToFile
    \/ OverlapConflict
    \/ TransformApplied
    \/ TransformFailed
    \/ ReturnResult
    \/ WriteBack

Spec == Init /\ [][Next]_vars

\* Engine( registry_manager, configuration ); no fix engine in use.
LintInit ==
    /\ enabled_rules \in SUBSET RuleIds
    /\ include_context \in BOOLEAN
    /\ context_size \in 0..MaxContext
    /\ LintIdle
    /\ disk = PristineSource
    /\ apply_dangerous = FALSE
    /\ FixIdle
    /\ BatchIdle
    /\ FilterIdle
    /\ RunIdle
    /\ VblIdle

LintNext ==
    \/ LintSource
    \/ InstantiateRule
    \/ InstantiateFails
    \/ VisitRule
    \/ VisitFails
    \/ ReturnReport

SpecLint == LintInit /\ [][LintNext]_vars

\* Engine( registry_manager, configuration ), used for a batch of files.
BatchInit ==
    /\ enabled_rules \in SUBSET RuleIds
    /\ include_context = FALSE
    /\ context_size = 0
    /\ LintIdle
    /\ disk = PristineSource
    /\ apply_dangerous = FALSE
    /\ FixIdle
    /\ BatchIdle
    /\ FilterIdle
    /\ RunIdle
    /\ VblIdle

BatchNext ==
    \/ LintFiles
    \/ ReadFails
    \/ LintFile
    \/ InstantiateRule
    \/ InstantiateFails
    \/ VisitRule
    \/ VisitFails
    \/ ReturnReport
    \/ AppendReport
    \/ ContinueOnError
    \/ ReturnReports

SpecBatch == BatchInit /\ [][BatchNext]_vars

\* An engine whose suppression extraction and filter are used on their own.
FilterInit ==
    /\ enabled_rules = {}
    /\ include_context = FALSE
    /\ context_size = 0
    /\ LintIdle
    /\ disk = PristineSource
    /\ apply_dangerous = FALSE
    /\ FixIdle
    /\ BatchIdle
    /\ FilterIdle
    /\ RunIdle
    /\ VblIdle

FilterNext ==
    \/ ExtractSuppressions
    \/ FilterViolations

SpecFilter == FilterInit /\ [][FilterNext]_vars

\* FixEngine( apply_dangerous = False ), used for a run over several files.
RunInit ==
    /\ enabled_rules = {}
    /\ include_context = FALSE
    /\ context_size = 0
    /\ LintIdle
    /\ disk = PristineSource
    /\ apply_dangerous = FALSE
    /\ FixIdle
    /\ BatchIdle
    /\ FilterIdle
    /\ RunIdle
    /\ VblIdle

RunNext ==
    \/ CollectAndApplyFixes
    \/ CollectFails
    \/ NoFixes
    \/ ApplyToFile
    \/ OverlapConflict
    \/ TransformApplied
    \/ TransformFailed
    \/ ReturnResult
    \/ WriteBack
    \/ WriteFails
    \/ AppendResult
    \/ ContinueOnFixError
    \/ ReturnResults

SpecRun == RunInit /\ [][RunNext]_vars

\* A VBL101 rule run on a source, as wrapper.visit( rule ) runs it.
VblInit ==
    /\ enabled_rules = {}
    /\ include_context = FALSE
    /\ context_size = 0
    /\ LintIdle
    /\ disk = PristineSource
    /\ apply_dangerous = FALSE
    /\ FixIdle
    /\ BatchIdle
    /\ FilterIdle
    /\ RunIdle
    /\ VblIdle

VblNext ==
    \/ RunVBL101
    \/ VisitFunctionDef
    \/ AnalyzeCollections
    \/ ScanLine
    \/ EndRange

SpecVBL101 == VblInit /\ [][VblNext]_vars

\* ======================================================== fix engine claims
\* apply_fixes has returned a result (whether or not the caller has gone on).
Returned == pc \in {"returned", "done"}

AppliedSet(r) == {r.applied_fixes[k] : k \in DOMAIN r.applied_fixes}
SkippedSet(r) == {r.skipped_fixes[k].fix : k \in DOMAIN r.skipped_fixes}
ConflictSet(r) == {r.conflicts[k].skipped_fix : k \in DOMAIN r.conflicts}
InputSet == {fixes[i] : i \in DOMAIN fixes}

\* How often the fix object f occurs in the three outcome sequences of r.
Occurrences(r, f) ==
      Cardinality({k \in DOMAIN r.applied_fixes : r.applied_fixes[k] = f})
    + Cardinality({k \in DOMAIN r.skipped_fixes : r.skipped_fixes[k].fix = f})
    + Cardinality({k \in DOMAIN r.conflicts : r.conflicts[k].skipped_fix = f})

SamePosition(f, g) == PositionOfFix(f) = PositionOfFix(g)

\* C1: whenever apply_fixes returns, every fix of the input is in exactly one
\* of applied_fixes, skipped_fixes and conflicts, and nothing else is in them:
\* the three lengths add up to len(fixes).
C1_EveryFixAccountedOnce ==
    Returned =>
        LET r == result[1]
        IN  /\ Len(r.applied_fixes) + Len(r.skipped_fixes) + Len(r.conflicts)
                   = Len(fixes)
            /\ \A i \in DOMAIN fixes : Occurrences(r, fixes[i]) = 1
            /\ AppliedSet(r) \cup SkippedSet(r) \cup ConflictSet(r) \subseteq InputSet

C1_Witness ==
    /\ pc = "done"
    /\ Len(fixes) = 2
    /\ Len(result[1].skipped_fixes) = 1
    /\ Len(result[1].conflicts) = 1

\* C2 as stated: of any two fixes with the same (line, column) exactly one is
\* applied and the other is in conflicts.
C2_AsStated ==
    Returned =>
        LET r == result[1]
        IN  \A i, j \in DOMAIN fixes :
                (i # j /\ SamePosition(fixes[i], fixes[j])) =>
                    \/ fixes[i] \in AppliedSet(r) /\ fixes[j] \in ConflictSet(r)
                    \/ fixes[j] \in AppliedSet(r) /\ fixes[i] \in ConflictSet(r)

\* The fixes of the input at position p that pass the safety filter.
EligibleAt(p) ==
    {f \in InputSet : PositionOfFix(f) = p /\ IsEligible(f, apply_dangerous)}

\* C2 amended: two fixes with the same (line, column) are never both applied.
\* Of the fixes at one position that pass the safety filter, exactly one is
\* applied, unless the transformers of all of them raise and none is; every
\* other one is in conflicts. A fix the safety filter rejects is in
\* skipped_fixes and not in conflicts.
C2_ConflictExclusivity ==
    Returned =>
        LET r == result[1]
        IN  /\ \A i, j \in DOMAIN fixes :
                   (i # j /\ SamePosition(fixes[i], fixes[j])) =>
                       ~(fixes[i] \in AppliedSet(r) /\ fixes[j] \in AppliedSet(r))
            /\ \A p \in Positions :
                   LET g == EligibleAt(p)
                   IN  /\ Cardinality(g \cap AppliedSet(r)) =
                              IF \E f \in g : ~Raises(f) THEN 1 ELSE 0
                       /\ g \ AppliedSet(r) \subseteq ConflictSet(r)
            /\ \A f \in InputSet :
                   ~IsEligible(f, apply_dangerous) =>
                       f \in SkippedSet(r) /\ f \notin ConflictSet(r)

C2_Witness ==
    /\ pc = "done"
    /\ Len(fixes) = 2
    /\ SamePosition(fixes[1], fixes[2])
    /\ result[1].applied_fixes = <<fixes[1]>>
    /\ Len(result[1].conflicts) = 1
    /\ result[1].conflicts[1].skipped_fix = fixes[2]
    /\ result[1].conflicts[1].reason = "Overlapping fix location."

NoTwoAtSamePosition ==
    \A i, j \in DOMAIN fixes : i # j => ~SamePosition(fixes[i], fixes[j])

Dangerous == {f \in InputSet : f.safety = "dangerous"}
Safe == {f \in InputSet : f.safety = "safe"}

\* The reason names the classification of the fix and the enabling flag.
ReasonNamesSafetyAndFlag(s) ==
    /\ \E k \in DOMAIN s.reason : s.reason[k] = s.fix.safety
    /\ \E k \in DOMAIN s.reason : s.reason[k] = "--apply-dangerous"

\* What C3 says of the skipped fixes.
SafetyGateSkips(r) ==
    /\ Len(r.skipped_fixes) = Cardinality(Dangerous)
    /\ SkippedSet(r) = Dangerous
    /\ AppliedSet(r) \cap Dangerous = {}
    /\ \A k \in DOMAIN r.skipped_fixes : ReasonNamesSafetyAndFlag(r.skipped_fixes[k])

\* C3 as stated: with dangerous fixes disabled and no two fixes at one
\* position, the m Safe fixes are applied and the k Dangerous ones skipped.
C3_AsStated ==
    (Returned /\ ~apply_dangerous /\ NoTwoAtSamePosition) =>
        LET r == result[1]
        IN  /\ Len(r.applied_fixes) = Cardinality(Safe)
            /\ SafetyGateSkips(r)

\* C3 amended: with dangerous fixes disabled and no two fixes at one position,
\* exactly the k Dangerous fixes are skipped, each with a reason that names its
\* classification and --apply-dangerous, none of them is applied, and the
\* applied fixes are exactly the Safe fixes whose transformer does not raise
\* (m of them when no transformer raises); a Safe fix whose transformer raises
\* is in conflicts.
C3_SafetyGate ==
    (Returned /\ ~apply_dangerous /\ NoTwoAtSamePosition) =>
        LET r == result[1]
        IN  /\ AppliedSet(r) = {f \in Safe : ~Raises(f)}
            /\ Len(r.applied_fixes) = Cardinality({f \in Safe : ~Raises(f)})
            /\ ConflictSet(r) = {f \in Safe : Raises(f)}
            /\ SafetyGateSkips(r)

C3_Witness ==
    /\ pc = "done"
    /\ ~apply_dangerous
    /\ NoTwoAtSamePosition
    /\ Cardinality(Dangerous) = 1
    /\ Cardinality(Safe) = 1
    /\ Len(result[1].applied_fixes) = 1
    /\ Len(result[1].skipped_fixes) = 1

\* The fix the loop is at, when it is about to call its transformer.
AboutToCall == InLoop /\ PositionOfFix(sorted_fixes[idx]) \notin DOMAIN applied_positions

FailureConflict(f) ==
    [skipped_fix |-> f, conflicting_fix |-> f, reason |-> "Transformation failed."]

\* C4: when the transformer of a fix raises, the call goes on: the next state
\* is in the loop again, with the tree and the applied fixes as they were, the
\* conflict (skipped_fix = conflicting_fix = that fix, "Transformation
\* failed.") appended and the loop at the next fix; the call ends in an
\* exception only when the file does not parse, before any transformer ran;
\* and a returned result accounts for every fix of the sorted order.
C4_FailedTransformIsContained ==
    /\ [][(AboutToCall /\ Raises(sorted_fixes[idx])) =>
            /\ pc' = "loop"
            /\ module' = module
            /\ applied' = applied
            /\ conflicts' = Append(conflicts, FailureConflict(sorted_fixes[idx]))
            /\ sorted_fixes' = sorted_fixes
            /\ idx' = idx + 1]_fixvars
    /\ [](pc = "raised" => ParseFails(source_code) /\ conflicts = <<>>)
    /\ []((Returned /\ sorted_fixes # <<>>) =>
            /\ idx = Len(sorted_fixes) + 1
            /\ Len(result[1].applied_fixes) + Len(result[1].conflicts)
                   = Len(sorted_fixes))

C4_Witness ==
    /\ pc = "done"
    /\ Len(sorted_fixes) = 2
    /\ result[1].conflicts = <<FailureConflict(sorted_fixes[1])>>
    /\ result[1].applied_fixes = <<sorted_fixes[2]>>
    /\ result[1].modified_source # result[1].original_source

\* Where the node that stood at position id when the source was parsed starts
\* in the tree as it is now.
PositionsOf(tree, id) ==
    UNION {{<<l, ColumnOf(tree[l], k)>> :
               k \in {j \in DOMAIN tree[l] : tree[l][j].id = id}} : l \in DOMAIN tree}

\* C5: while the loop runs, the node every fix not yet handled was made for
\* (unless its position is already claimed, and it will be skipped) still
\* starts at the (line, column) of that fix: the fixes applied so far, all at
\* larger positions, have not moved it.
C5_TargetsOfPendingFixesDoNotMove ==
    InLoop =>
        \A k \in idx..Len(sorted_fixes) :
            LET position == PositionOfFix(sorted_fixes[k])
            IN  position \notin DOMAIN applied_positions =>
                    PositionsOf(module, position) = {position}

C5_Witness ==
    /\ InLoop
    /\ idx = 2
    /\ Len(applied) = 1
    /\ module # parse_module(source_code)
    /\ sorted_fixes[2].line = applied[1].line
    /\ sorted_fixes[2].column < applied[1].column

\* C6: a call writes the file at most once; it has written when it is done if
\* and only if some fix was applied and simulate is false, and then the file
\* holds modified_source; in every other case, and as long as the call runs
\* or when it ended in an exception, the file holds what the call read.
C6_OneWriteOnlyWhenChangedAndNotSimulated ==
    /\ writes <= 1
    /\ pc \in {"loop", "returned", "raised"} => (writes = 0 /\ disk = source_code)
    /\ pc = "done" =>
           /\ writes = 1 <=> (result[1].applied_fixes # <<>> /\ ~simulate)
           /\ writes = 1 => disk = result[1].modified_source
           /\ writes = 0 => disk = source_code

C6_Witness ==
    /\ pc = "done"
    /\ writes = 1
    /\ disk # source_code
    /\ disk = result[1].modified_source

\* The tree after the first k applied fixes of the result r.
RECURSIVE Replay(_, _)
Replay(r, k) ==
    IF k = 0 THEN parse_module(r.original_source)
    ELSE Transformed(r.applied_fixes[k], Replay(r, k - 1))

\* Some applied fix of r changed the tree it was given.
SomeFixEffective(r) ==
    \E k \in DOMAIN r.applied_fixes : Replay(r, k) # Replay(r, k - 1)

\* Where apply_fixes has returned, the call ends with the value sim of simulate.
EndsWith(sim) == WriteBack /\ simulate' = sim

\* C7: where apply_fixes has returned, the call can end as a preview (simulate
\* = true) and as a real run (simulate = false), and either way it returns the
\* result apply_fixes has made: the same applied fixes, skipped fixes,
\* conflicts and modified source; the preview writes nothing, the file is
\* after it what the call read, and its modified_source differs from
\* original_source when an applied fix changed the tree.
C7_SimulationIsAPurePreview ==
    /\ [](pc = "returned" => (ENABLED EndsWith(TRUE) /\ ENABLED EndsWith(FALSE)))
    /\ [][pc = "returned" =>
            /\ pc' = "done"
            /\ result' = result
            /\ simulate' => (disk' = disk /\ writes' = writes)]_vars
    /\ []((pc = "done" /\ simulate) =>
            /\ writes = 0
            /\ disk = source_code
            /\ SomeFixEffective(result[1]) =>
                   result[1].modified_source # result[1].original_source)

C7_Witness ==
    /\ pc = "done"
    /\ simulate
    /\ Len(result[1].applied_fixes) = 2
    /\ SomeFixEffective(result[1])
    /\ result[1].modified_source # result[1].original_source
    /\ disk = result[1].original_source

\* C8: apply_fixes( source, [] ) returns the source as original_source and as
\* modified_source, and three empty outcome sequences.
C8_NoFixesNoChange ==
    (Returned /\ fixes = <<>>) =>
        /\ result[1] = FixApplicationResult(source_code, source_code, <<>>, <<>>, <<>>)
        /\ source_code = disk
        /\ result[1].applied_fixes = <<>>

C8_Witness ==
    /\ pc = "done"
    /\ fixes = <<>>
    /\ result[1].modified_source = PristineSource

\* ======================================================= lint engine claims
\* The violations in the order in which the rules hold them.
Discovery == Flatten(found)

\* C9: in the Report lint_source returns, each violation is followed by one
\* on a later line, or on the same line at the same or a later column.
C9_ReportSortedByLineThenColumn ==
    lpc = "done" =>
        LET v == report[1].violations
        IN  \A i \in 1..(Len(v) - 1) :
                \/ v[i].line < v[i + 1].line
                \/ v[i].line = v[i + 1].line /\ v[i].column <= v[i + 1].column

C9_Witness ==
    /\ lpc = "done"
    /\ Len(rules) = 2
    /\ Len(report[1].violations) = 3
    /\ report[1].violations # Discovery
    /\ \E i, j \in DOMAIN Discovery :
           /\ i < j
           /\ Discovery[i].line = Discovery[j].line
           /\ Discovery[i].column > Discovery[j].column

\* C10: the Report holds the discovered violations, each once, and two of them
\* with the same (line, column) are in the Report in the order in which they
\* were discovered.
C10_SortIsStable ==
    lpc = "done" =>
        LET v == report[1].violations
        IN  /\ Len(v) = Len(Discovery)
            /\ {v[i] : i \in DOMAIN v} = {Discovery[i] : i \in DOMAIN Discovery}
            /\ \A a, b \in DOMAIN v :
                   (a < b /\ v[a].line = v[b].line /\ v[a].column = v[b].column) =>
                       \E i, j \in DOMAIN Discovery :
                           i < j /\ Discovery[i] = v[a] /\ Discovery[j] = v[b]

C10_Witness ==
    /\ lpc = "done"
    /\ report[1].violations # Discovery
    /\ \E a, b \in DOMAIN report[1].violations :
           LET v == report[1].violations
           IN  /\ a < b
               /\ v[a].line = v[b].line
               /\ v[a].column = v[b].column
               /\ v[a].rule_id # v[b].rule_id

\* C12 as stated: when the source does not parse (the call ends in an
\* exception before source_lines is assigned), the exception that leaves
\* lint_source is the parser's own ParserSyntaxError, wrapped in nothing, and
\* no Report is returned.
C12_ParseFailurePropagatesUnmodified ==
    (lpc = "raised" /\ source_lines = <<>>) =>
        /\ error[1].type = "ParserSyntaxError"
        /\ report = <<>>

C14_ExactlyOneTraversal ==
    lpc = "done" =>
        /\ Len(traversals) = 1
        /\ \A i \in DOMAIN rules : traversals[1].visitor = rules[i]

\* ======================================================== lint_files claims
\* The index of the path a report is for.
PathOf(r) == r.filename[2]

\* The reports are for different paths before the one the loop is at, and
\* stand in the order of their paths.
InInputOrder(rs) ==
    /\ \A k \in DOMAIN rs : PathOf(rs[k]) \in 1..(fi - 1)
    /\ \A k \in 1..(Len(rs) - 1) : PathOf(rs[k]) < PathOf(rs[k + 1])

\* C11: lint_files never ends in an exception: where the loop is at a path it
\* analyses that path, whatever happened with the paths before; a path whose
\* lint_file raises (unreadable file, parse error, metadata failure, rule
\* instantiation or execution failure) adds no Report and the loop goes on to
\* the next path; a path whose lint_file returns adds its Report behind the
\* others; and the tuple returned holds, in the order of their paths, one
\* Report for each path that succeeded and none for a path that cannot be read
\* or parsed.
C11_BatchSkipsFailuresKeepsOrder ==
    /\ [](bpc \in {"idle", "loop", "file", "done"})
    /\ []((bpc = "loop" /\ fi <= Len(file_paths)) => ENABLED (LintFile \/ ReadFails))
    /\ [][(bpc = "loop" /\ fi <= Len(file_paths) /\ ~file_paths[fi].readable) =>
            (reports' = reports /\ fi' = fi + 1 /\ bpc' = "loop")]_vars
    /\ [][(bpc = "file" /\ lpc = "raised") =>
            (reports' = reports /\ fi' = fi + 1 /\ bpc' = "loop")]_vars
    /\ [][(bpc = "file" /\ lpc = "done") =>
            (reports' = Append(reports, report[1]) /\ fi' = fi + 1 /\ bpc' = "loop"
             /\ report[1].filename = PathName(fi))]_vars
    /\ [](InInputOrder(reports))
    /\ [](bpc = "done" =>
            /\ fi = Len(file_paths) + 1
            /\ returned = <<reports>>
            /\ \A i \in DOMAIN file_paths :
                   (~file_paths[i].readable \/ ParseFails(file_paths[i].text)) =>
                       \A k \in DOMAIN reports : PathOf(reports[k]) # i)

C11_Witness ==
    /\ bpc = "done"
    /\ Len(file_paths) = 3
    /\ ParseFails(file_paths[2].text)
    /\ Len(returned[1]) = 2
    /\ returned[1][1].filename = PathName(1)
    /\ returned[1][2].filename = PathName(3)

\* ------------------------------------------------------- context claims
\* The source lines first..last of the analysed text.
LinesFromTo(first, last) ==
    [j \in 1..(last - first + 1) |-> source_lines[first + j - 1]]

\* C20: the contexts of the Report lint_source returns are empty when
\* include_context is false or the Report has no violation; otherwise there is
\* one ViolationContext per violation, in the order of the violations, each
\* with the source lines from max(1, line - context_size) through
\* min(number of source lines, line + context_size) and with
\* context_start_line the first of these line numbers.
C20_ContextsPerViolation ==
    lpc = "done" =>
        LET r == report[1]
            n == Len(source_lines)
        IN  IF ~include_context \/ r.violations = <<>>
            THEN r.contexts = <<>>
            ELSE /\ Len(r.contexts) = Len(r.violations)
                 /\ \A k \in DOMAIN r.violations :
                        LET line == r.violations[k].line
                            first == IF line - context_size < 1 THEN 1
                                     ELSE line - context_size
                            last == IF line + context_size > n THEN n
                                    ELSE line + context_size
                        IN  /\ r.contexts[k].violation = r.violations[k]
                            /\ r.contexts[k].context_start_line = first
                            /\ r.contexts[k].context_lines = LinesFromTo(first, last)

C20_Witness ==
    /\ lpc = "done"
    /\ include_context
    /\ context_size = 1
    /\ source_lines = NoqaSource
    /\ Len(report[1].violations) = 2
    /\ report[1].violations # Discovery
    /\ Len(report[1].contexts) = 2
    /\ report[1].contexts[1].violation.line = 1
    /\ report[1].contexts[1].context_start_line = 1
    /\ report[1].contexts[1].context_lines = NoqaSource
    /\ report[1].contexts[2].violation.line = MaxLine
    /\ report[1].contexts[2].context_start_line = MaxLine - 1

\* ================================================ suppression filter claims
\* C15 as stated: the Report lint_source returns holds no violation on a line
\* whose comment carries the generic suppression marker.
C15_ReportHasNoSuppressedViolation ==
    lpc = "done" =>
        \A k \in DOMAIN report[1].violations :
            LET l == report[1].violations[k].line
                suppressions == extract_suppressions(source_lines)
            IN  ~(l \in DOMAIN suppressions /\ suppressions[l].all)

\* The filter has run; its arguments and what it returned.
Filtered == flt_pc = "filtered"
Kept == {flt_result[1][k] : k \in DOMAIN flt_result[1]}

\* The rule codes that a key of per_file_ignores matching the filename lists,
\* by code or by descriptive name.
IgnoredByConfiguration ==
    {c \in RuleIds :
        \E p \in DOMAIN per_file_ignores :
            /\ GlobMatches(p, flt_filename)
            /\ (c \in per_file_ignores[p] \/ Registry[c] \in per_file_ignores[p])}

\* C16: where the suppression map gives for a line a set that lists only rule
\* A, no violation of rule A on that line is in what the filter returns, and
\* a violation of another rule B on that line is in it (unless B is ignored
\* for the file); a violation on a line without an entry is in it (unless its
\* rule is ignored for the file).
C16_ScopedSuppression ==
    Filtered =>
        \A i \in DOMAIN flt_violations :
            LET v == flt_violations[i]
            IN  /\ \A A \in RuleIds :
                       (/\ v.line \in DOMAIN flt_suppressions
                        /\ flt_suppressions[v.line] = [all |-> FALSE, rules |-> {A}]) =>
                           /\ v.rule_id = A => v \notin Kept
                           /\ v.rule_id # A =>
                                  (v \in Kept <=> v.rule_id \notin IgnoredByConfiguration)
                /\ v.line \notin DOMAIN flt_suppressions =>
                       (v \in Kept <=> v.rule_id \notin IgnoredByConfiguration)

C16_Witness ==
    /\ Filtered
    /\ Len(flt_violations) = 2
    /\ flt_violations[1].rule_id = "VBL101"
    /\ flt_violations[2].rule_id = "VBL103"
    /\ flt_violations[1].line = 1
    /\ flt_violations[2].line = 1
    /\ DOMAIN flt_suppressions = {1}
    /\ flt_suppressions[1] = [all |-> FALSE, rules |-> {"VBL101"}]
    /\ DOMAIN per_file_ignores = {}
    /\ flt_result[1] = <<flt_violations[2]>>

\* The places of the input whose violation is not dropped: its rule is not
\* ignored for the file, its line is not marked AllRulesSuppressed and the
\* scoped set of its line does not hold its rule.
Surviving ==
    {i \in DOMAIN flt_violations :
        LET v == flt_violations[i]
        IN  ~(\/ v.rule_id \in IgnoredByConfiguration
              \/ v.line \in DOMAIN flt_suppressions /\ flt_suppressions[v.line].all
              \/ /\ v.line \in DOMAIN flt_suppressions
                 /\ v.rule_id \in flt_suppressions[v.line].rules)}

\* C17: what the filter returns is the input without the dropped violations:
\* as long as the number of surviving places, and its k-th element is the
\* violation at the k-th surviving place of the input.
C17_FilterIsOrderPreservingSubsequence ==
    Filtered =>
        /\ Len(flt_result[1]) = Cardinality(Surviving)
        /\ \A i \in Surviving :
               flt_result[1][1 + Cardinality({j \in Surviving : j < i})]
                   = flt_violations[i]

C17_Witness ==
    /\ Filtered
    /\ Len(flt_violations) = 2
    /\ flt_violations[1].line = 2
    /\ flt_violations[2].line = 1
    /\ Surviving = {1, 2}
    /\ flt_suppressions # <<>>
    /\ DOMAIN per_file_ignores # {}
    /\ flt_result[1] = flt_violations

\* per_file_ignores with the keys that match the filename only.
MatchingIgnores ==
    [p \in {q \in DOMAIN per_file_ignores : GlobMatches(q, flt_filename)} |->
        per_file_ignores[p]]

\* C18: the rules ignored for the filename are those that a matching key
\* lists by code or by descriptive name, whichever of the matching keys it
\* is; a violation on a line without suppression entry is returned if and only
\* if its rule is not among them; and the keys that do not match change
\* nothing.
C18_PerFileIgnores ==
    Filtered =>
        /\ ignored_rules(flt_filename, per_file_ignores) = IgnoredByConfiguration
        /\ \A i \in DOMAIN flt_violations :
               flt_violations[i].line \notin DOMAIN flt_suppressions =>
                   (flt_violations[i] \in Kept
                        <=> flt_violations[i].rule_id \notin IgnoredByConfiguration)
        /\ flt_result[1] = filter_violations(flt_violations, flt_suppressions,
                                             flt_filename, MatchingIgnores)

C18_Witness ==
    /\ Filtered
    /\ flt_filename = <<"tests", "unit", "test_foo.py">>
    /\ DOMAIN per_file_ignores = {<<"tests", "**", "*.py">>, <<"**", "*.py">>}
    /\ per_file_ignores[<<"tests", "**", "*.py">>] = {"blank-line-elimination"}
    /\ per_file_ignores[<<"**", "*.py">>] = {"VBL103"}
    /\ DOMAIN flt_suppressions = {}
    /\ Len(flt_violations) = 2
    /\ flt_violations[1].rule_id = "VBL101"
    /\ flt_violations[2].rule_id = "VBL103"
    /\ flt_result[1] = <<>>

\* C19: the suppression map has an entry for line n exactly when the comment
\* of line n is a suppression marker: AllRulesSuppressed for the generic
\* marker, the set of the listed rules for the scoped marker, however the
\* list is spaced; a line with an ordinary comment or none has no entry.
C19_SuppressionMap ==
    flt_pc = "extracted" =>
        /\ DOMAIN flt_suppressions \subseteq DOMAIN flt_lines
        /\ \A n \in DOMAIN flt_lines :
               \A kind \in CommentKinds, ids \in MarkerLists, wide \in BOOLEAN :
                   flt_lines[n] = SourceLine(kind, ids, wide) =>
                       /\ kind \in {"none", "plain"} => n \notin DOMAIN flt_suppressions
                       /\ kind = "generic" =>
                              /\ n \in DOMAIN flt_suppressions
                              /\ flt_suppressions[n].all
                       /\ kind = "scoped" =>
                              /\ n \in DOMAIN flt_suppressions
                              /\ ~flt_suppressions[n].all
                              /\ flt_suppressions[n].rules
                                     = {ids[k] : k \in DOMAIN ids}

C19_Witness ==
    /\ flt_pc = "extracted"
    /\ Len(flt_lines) = 2
    /\ flt_lines[1] = SourceLine("scoped", <<"VBL101", "VBL103">>, TRUE)
    /\ flt_lines[2] = SourceLine("plain", <<>>, FALSE)
    /\ DOMAIN flt_suppressions = {1}
    /\ flt_suppressions[1].rules = {"VBL101", "VBL103"}

\* ============================================= conflict bookkeeping claims
Overlapping == "Overlapping fix location."
Failed == "Transformation failed."

\* apply_fixes is in its loop or has returned from it.
Looping == pc \in {"loop", "returned", "done"}

InvokedSet == {invoked[k] : k \in DOMAIN invoked}

\* The sequence of fixes is strictly decreasing in (line, column).
StrictlyDescending(fs) ==
    \A i, j \in DOMAIN fs :
        i < j => KeyLess(PositionOfFix(fs[j]), PositionOfFix(fs[i]))

\* C24: applied_fixes lists the fixes in the order in which they were applied,
\* and that order is strictly decreasing in (line, column): no two applied
\* fixes share a position.
C24_AppliedStrictlyDescending ==
    /\ [][(pc = "loop" /\ applied' # applied) =>
              applied' = Append(applied, sorted_fixes[idx])]_vars
    /\ [](Looping => StrictlyDescending(applied))
    /\ [](Returned =>
              /\ (Len(result[1].applied_fixes) > 0 => result[1].applied_fixes = applied)
              /\ StrictlyDescending(result[1].applied_fixes))

C24_Witness ==
    /\ pc = "done"
    /\ Len(fixes) = 2
    /\ KeyLess(PositionOfFix(fixes[1]), PositionOfFix(fixes[2]))
    /\ result[1].applied_fixes = <<fixes[2], fixes[1]>>

\* C25: a conflict with the overlapping-location reason names as
\* conflicting_fix an applied fix, another input element than skipped_fix, at
\* the position of skipped_fix, that was applied before skipped_fix was
\* examined; a conflict with the transformation-failed reason names
\* skipped_fix itself, which is not applied.
C25_ConflictsNameTheirCause ==
    /\ [](Returned =>
              \A k \in DOMAIN result[1].conflicts :
                  LET c == result[1].conflicts[k]
                  IN  /\ c.reason \in {Overlapping, Failed}
                      /\ c.reason = Overlapping =>
                             /\ c.conflicting_fix \in AppliedSet(result[1])
                             /\ c.conflicting_fix # c.skipped_fix
                             /\ c.conflicting_fix.id # c.skipped_fix.id
                             /\ SamePosition(c.conflicting_fix, c.skipped_fix)
                      /\ c.reason = Failed =>
                             /\ c.conflicting_fix = c.skipped_fix
                             /\ c.skipped_fix \notin AppliedSet(result[1]))
    /\ [][(pc = "loop" /\ conflicts' # conflicts) =>
              LET c == conflicts'[Len(conflicts')]
              IN  /\ conflicts' = Append(conflicts, c)
                  /\ c.skipped_fix = sorted_fixes[idx]
                  /\ c.reason = Overlapping =>
                         \E k \in DOMAIN applied : applied[k] = c.conflicting_fix]_vars

C25_Witness ==
    /\ pc = "done"
    /\ Len(result[1].conflicts) = 1
    /\ result[1].conflicts[1].reason = Overlapping
    /\ result[1].conflicts[1].skipped_fix = fixes[2]
    /\ result[1].conflicts[1].conflicting_fix = fixes[1]
    /\ result[1].applied_fixes = <<fixes[1]>>
    /\ fixes[1].transformer_factory # fixes[2].transformer_factory

\* The eligible fixes at the position of f that are before f in the input.
EligibleBefore(f) ==
    {g \in EligibleAt(PositionOfFix(f)) : g.id < f.id}

\* C26: a fix whose transformer raised claims no position: the step that
\* records the failure leaves applied_positions alone, a claimed position is
\* always held by an applied fix at that position, and an eligible fix whose
\* transformer succeeds, at a position where every earlier eligible fix
\* failed, is applied and not recorded as a conflict.
C26_FailedFixClaimsNothing ==
    /\ [][(pc = "loop" /\ conflicts' # conflicts
               /\ conflicts'[Len(conflicts')].reason = Failed) =>
              applied_positions' = applied_positions]_vars
    /\ [](Looping =>
              \A p \in DOMAIN applied_positions :
                  /\ PositionOfFix(applied_positions[p]) = p
                  /\ \E k \in DOMAIN applied : applied[k] = applied_positions[p])
    /\ [](Returned =>
              \A f \in InputSet :
                  (/\ IsEligible(f, apply_dangerous)
                   /\ ~Raises(f)
                   /\ \A g \in EligibleBefore(f) : Raises(g)) =>
                      /\ f \in AppliedSet(result[1])
                      /\ f \notin ConflictSet(result[1])
                      /\ \A g \in EligibleBefore(f) :
                             \E k \in DOMAIN result[1].conflicts :
                                 /\ result[1].conflicts[k].skipped_fix = g
                                 /\ result[1].conflicts[k].reason = Failed)

C26_Witness ==
    /\ pc = "done"
    /\ Len(fixes) = 2
    /\ SamePosition(fixes[1], fixes[2])
    /\ Raises(fixes[1])
    /\ result[1].applied_fixes = <<fixes[2]>>
    /\ Len(result[1].conflicts) = 1
    /\ result[1].conflicts[1].skipped_fix = fixes[1]
    /\ result[1].conflicts[1].reason = Failed
    /\ DOMAIN applied_positions = {PositionOfFix(fixes[2])}

\* C27: the applied fix of a position is the earliest eligible fix of the
\* input at that position whose transformer succeeds; every eligible fix at
\* that position after it in the input is an overlapping-location conflict
\* against it, and its transformer is never invoked.
C27_EarliestSuccessfulFixWins ==
    Returned =>
        \A f \in AppliedSet(result[1]) :
            /\ ~Raises(f)
            /\ f \in InvokedSet
            /\ \A g \in EligibleAt(PositionOfFix(f)) :
                   /\ g.id < f.id => Raises(g)
                   /\ g.id > f.id =>
                          /\ g \notin InvokedSet
                          /\ \E k \in DOMAIN result[1].conflicts :
                                 /\ result[1].conflicts[k].skipped_fix = g
                                 /\ result[1].conflicts[k].conflicting_fix = f
                                 /\ result[1].conflicts[k].reason = Overlapping

C27_Witness ==
    /\ pc = "done"
    /\ Len(fixes) = 2
    /\ SamePosition(fixes[1], fixes[2])
    /\ ~Raises(fixes[1])
    /\ ~Raises(fixes[2])
    /\ fixes[1].transformer_factory # fixes[2].transformer_factory
    /\ result[1].applied_fixes = <<fixes[1]>>
    /\ invoked = <<fixes[1]>>
    /\ Len(result[1].conflicts) = 1

\* A Dangerous and a Safe fix at one position are the whole input, and
\* dangerous fixes are disabled.
DangerousBesideSafe(d, f) ==
    /\ ~apply_dangerous
    /\ Len(fixes) = 2
    /\ d \in InputSet /\ d.safety = "dangerous"
    /\ f \in InputSet /\ f.safety = "safe"
    /\ SamePosition(d, f)

\* A fix the safety filter rejects is outside the conflict bookkeeping.
RejectedStaysOutside ==
    Looping =>
        \A f \in InputSet :
            ~IsEligible(f, apply_dangerous) =>
                /\ f \notin InvokedSet
                /\ \A p \in DOMAIN applied_positions : applied_positions[p] # f
                /\ \A k \in DOMAIN conflicts :
                       conflicts[k].conflicting_fix # f /\ conflicts[k].skipped_fix # f
                /\ Returned =>
                       /\ f \in SkippedSet(result[1])
                       /\ \A k \in DOMAIN result[1].conflicts :
                              result[1].conflicts[k].conflicting_fix # f

\* C28 as stated: a rejected fix is outside the conflict bookkeeping, and
\* with dangerous fixes disabled a Dangerous fix at the position of a Safe fix
\* is skipped while the Safe fix is applied and conflicts stays empty.
C28_AsStated ==
    /\ RejectedStaysOutside
    /\ Returned =>
           \A d, f \in InputSet :
               DangerousBesideSafe(d, f) =>
                   /\ d \in SkippedSet(result[1])
                   /\ result[1].applied_fixes = <<f>>
                   /\ result[1].conflicts = <<>>

\* C28 amended: a rejected fix is outside the conflict bookkeeping; with
\* dangerous fixes disabled a Dangerous fix at the position of a Safe fix is
\* skipped, and the Safe fix is applied with conflicts empty when its
\* transformer succeeds, and is the one transformation-failed conflict, with
\* nothing applied, when its transformer raises.
C28_RejectedFixOutsideConflicts ==
    /\ RejectedStaysOutside
    /\ Returned =>
           \A d, f \in InputSet :
               DangerousBesideSafe(d, f) =>
                   /\ d \in SkippedSet(result[1])
                   /\ d \notin ConflictSet(result[1])
                   /\ IF Raises(f)
                      THEN /\ result[1].applied_fixes = <<>>
                           /\ result[1].conflicts =
                                  <<[skipped_fix |-> f, conflicting_fix |-> f,
                                     reason |-> Failed]>>
                      ELSE /\ result[1].applied_fixes = <<f>>
                           /\ result[1].conflicts = <<>>

C28_Witness ==
    /\ pc = "done"
    /\ DangerousBesideSafe(fixes[1], fixes[2])
    /\ ~Raises(fixes[1])
    /\ ~Raises(fixes[2])
    /\ result[1].applied_fixes = <<fixes[2]>>
    /\ result[1].conflicts = <<>>
    /\ Len(result[1].skipped_fixes) = 1
    /\ invoked = <<fixes[2]>>

\* ========================================================= fix run claims
\* apply_fixes_to_file needs to write the file: some fix of it can be applied
\* and the run does not simulate.
NeedsWrite(file) ==
    ~run_simulate /\ \E k \in DOMAIN file.fixes : file.fixes[k] # "raise"

\* Collecting or applying the fixes of the file ends in an error: the
\* collection raises, the text read for the application does not parse, or
\* the write fails.
FileFails(file) ==
    \/ file.collect = "raises"
    \/ file.collect = "fixes" /\ ParseFails(file.text)
    \/ file.collect = "fixes" /\ NeedsWrite(file) /\ ~file.writable

\* The places of the paths that give a result, in the order of the paths.
Contributing ==
    {i \in DOMAIN fix_paths :
        fix_paths[i].collect = "fixes" /\ ~FileFails(fix_paths[i])}

\* C21: a fix run never ends in an exception and goes through every path:
\* a path whose collection or application fails adds no result and the loop
\* goes on with the next path, a path without fixes adds none either, and
\* the tuple returned holds exactly one result for each other path, in the
\* order of the paths.
C21_FixRunSkipsFailuresKeepsOrder ==
    /\ [](rpc \in {"idle", "loop", "file", "done"})
    /\ [](RunLoop =>
            /\ fix_paths[ri].collect \in {"raises", "none", "fixes"}
            /\ fix_paths[ri].collect # "fixes" => ENABLED (CollectFails \/ NoFixes))
    /\ [](rpc = "file" => pc \in {"loop", "returned", "done", "raised"})
    /\ [][(RunLoop /\ fix_paths[ri].collect \in {"raises", "none"}) =>
            (file_results' = file_results /\ ri' = ri + 1 /\ rpc' = "loop")]_vars
    /\ [][(rpc = "file" /\ pc = "raised") =>
            (file_results' = file_results /\ ri' = ri + 1 /\ rpc' = "loop")]_vars
    /\ [][(rpc = "file" /\ pc = "done") =>
            /\ Len(file_results') = Len(file_results) + 1
            /\ SubSeq(file_results', 1, Len(file_results)) = file_results
            /\ file_results'[Len(file_results')].filename = PathName(ri)
            /\ ri' = ri + 1
            /\ rpc' = "loop"]_vars
    /\ [](rpc = "done" =>
            /\ Len(fix_paths) > 0 => ri = Len(fix_paths) + 1
            /\ run_returned = <<file_results>>
            /\ Len(file_results) = Cardinality(Contributing)
            /\ \A i \in Contributing :
                   PathOf(file_results[1 + Cardinality({j \in Contributing : j < i})])
                       = i)

C21_Witness ==
    /\ rpc = "done"
    /\ Len(fix_paths) = 3
    /\ FileFails(fix_paths[1])
    /\ fix_paths[1].collect = "fixes"
    /\ fix_paths[2].collect = "none"
    /\ Len(run_returned[1]) = 1
    /\ run_returned[1][1].filename = PathName(3)

\* =========================================================== VBL101 claims
\* C22 as stated: for "def f():\n    x = 1\n\n    y = 2\n" VBL101 with its
\* default parameters produces exactly one violation, at line 3, column 1,
\* with severity warning.
C22_SingleBlankLineIsReported ==
    (/\ vpc = "done"
     /\ v_source_lines = SingleBlankSource
     /\ max_consecutive_blanks = DefaultMaxBlanks) =>
        /\ Len(v_violations) = 1
        /\ v_violations[1].rule_id = "VBL101"
        /\ v_violations[1].line = 3
        /\ v_violations[1].column = 1
        /\ v_violations[1].severity = "warning"

\* C23 as stated: with nested functions a violating blank line is reported
\* once: no two VBL101 violations of one analysis are on the same line.
C23_NestedBlankReportedOnce ==
    vpc = "done" =>
        \A i, j \in DOMAIN v_violations :
            i # j => v_violations[i].line # v_violations[j].line

\* ======================================================= rule order claims
\* The rules that have visited the tree, or begun to.
Visitors == {traversals[k].visitor : k \in DOMAIN traversals}

\* C29: no rule visits the tree before every enabled rule is instantiated;
\* when an instantiation fails no rule has visited the tree; when the
\* traversal of a rule fails it is the last traversal of the call and the
\* rules behind it in the list have not run; and a call that fails returns
\* no Report, whatever the rules before had found.
C29_InstantiateAllThenVisit ==
    /\ [][traversals' # traversals =>
              /\ Len(rules) = Len(rule_order)
              /\ {rules[k] : k \in DOMAIN rules} = enabled_rules
              /\ rules' = rules]_vars
    /\ [](lpc = "instantiate" => traversals = <<>> /\ found = <<>>)
    /\ []((lpc = "raised" /\ error[1].message = "Failed to instantiate rule") =>
              traversals = <<>>)
    /\ [](\A k \in DOMAIN traversals :
              ~traversals[k].completed =>
                  /\ k = Len(traversals)
                  /\ lpc = "raised"
                  /\ error[1].message = "Rule failed during analysis"
                  /\ \A j \in (k + 1)..Len(rules) : rules[j] \notin Visitors)
    /\ [](lpc = "raised" => report = <<>>)
    /\ [][lpc = "raised" => (lpc' = "raised" /\ report' = <<>>)]_vars

C29_Witness ==
    /\ lpc = "raised"
    /\ Len(rules) = 2
    /\ Len(traversals) = 1
    /\ ~traversals[1].completed
    /\ rules[2] \notin Visitors
    /\ report = <<>>

\* The violations of the Report had enabled_rules been iterated so that the
\* rule at place o[k] came k-th: every rule finds what it found.
ReportInOrder(o) ==
    sort_violations(Flatten([k \in DOMAIN o |-> found[o[k]]]))

\* The violations of one rule in a sequence of violations, in their order.
OfRule(vs, rule_id) == SelectSeq(vs, LAMBDA v : v.rule_id = rule_id)

\* C30 as stated: the violations of the Report are the same sequence for
\* every order in which enabled_rules is iterated.
C30_AsStated ==
    lpc = "done" =>
        \A o \in Orders(DOMAIN rules) : ReportInOrder(o) = report[1].violations

\* C30 amended: for every order in which enabled_rules is iterated the Report
\* holds the same violations, with the same (line, column) at every place and
\* the violations of each rule in the same order; the sequences can differ
\* only in the order of violations of different rules with the same (line,
\* column), and are identical when there are none.
C30_RuleOrderOnlyPermutesTies ==
    lpc = "done" =>
        \A o \in Orders(DOMAIN rules) :
            LET v == report[1].violations
                w == ReportInOrder(o)
            IN  /\ Len(w) = Len(v)
                /\ {w[k] : k \in DOMAIN w} = {v[k] : k \in DOMAIN v}
                /\ \A k \in DOMAIN v :
                       w[k].line = v[k].line /\ w[k].column = v[k].column
                /\ \A r \in enabled_rules : OfRule(w, r) = OfRule(v, r)
                /\ (\A i, j \in DOMAIN v :
                        (v[i].line = v[j].line /\ v[i].column = v[j].column) =>
                            v[i].rule_id = v[j].rule_id) => w = v

C30_Witness ==
    /\ lpc = "done"
    /\ Len(rules) = 2
    /\ Len(report[1].violations) = 3
    /\ \E i, j \in DOMAIN report[1].violations :
           /\ report[1].violations[i].rule_id # report[1].violations[j].rule_id
           /\ report[1].violations[i].line = report[1].violations[j].line
           /\ report[1].violations[i].column = report[1].violations[j].column
    /\ \E o \in Orders(DOMAIN rules) : ReportInOrder(o) # report[1].violations

====
